---- MODULE Spec2Model ----
(***************************************************************************)
(* State-machine model of the polling-cache / single-flight / streaming    *)
(* layer of the HPC dashboard (blueprints/modules.py, blueprints/jobs.py,  *)
(* app.py).                                                                *)
(*                                                                         *)
(* Conventions                                                             *)
(*   - a Python Optional is a sequence of length 0 (None) or 1 (a value);  *)
(*   - a text is a sequence of lines; a module line such as "rc/Slicer/5"  *)
(*     is the sequence of its '/'-separated segments <<"rc","Slicer","5">>;*)
(*   - a dict is a TLA+ function; dict.update(b) on a is  b @@ a.          *)
(***************************************************************************)
EXTENDS Integers, Sequences, FiniteSets, TLC

VARIABLES
    streaming_in_progress,     \* modules.py:37  _streaming_in_progress
    modules_cache,             \* modules.py:32  _modules_cache (Optional list)
    modules_cache_timestamp,   \* modules.py:33  _modules_cache_timestamp
    categories_file,           \* config/module_categories.json (CATEGORIES_FILE)
    spider_text,               \* what 'module -t spider' prints on this cluster
    scan,                      \* one record per SSE generator (refresh_modules / stream_descriptions)
    preload,                   \* position of the startup thread _preload_modules_cache
    resp,                      \* the response of the most recent route handler
    now,                       \* time.time(), in seconds since process start
    acquired_at,               \* history: value of now when the flag was last set
    started_in_window,         \* history: 'started' responses since the flag was last cleared
    seff_file,                 \* logs/seff_cache.json (SEFF_CACHE_FILE)
    call,                      \* one record per request thread inside _call_seff
    worker,                    \* the preload_worker thread of _preload_seff_cache
    recorded,                  \* history: jobs whose result _call_seff has stored
    projects_file,             \* logs/projects_cache.json (PROJECTS_CACHE_FILE)
    slurm_file,                \* logs/slurm_load.txt (SLURM_LOAD_FILE)
    ret,                       \* what the most recent cache read or gateway call returned
    partitions_file,           \* logs/partitions.txt (PARTITIONS_FILE)
    quota_file,                \* logs/disk_quota.txt
    modules_file,              \* logs/modules.txt
    bg,                        \* positions of the startup threads of app.py
    invoked,                   \* history: external commands the most recent handler ran or started
    saving,                    \* per cache file: position of a thread inside its _save_* function
    written,                   \* history, per cache file: the payload of the last finished save
    merged                     \* history of the description merges: their map, their number, the file after the first

vars == <<streaming_in_progress, modules_cache, modules_cache_timestamp,
          categories_file, spider_text, scan, preload, resp, now, acquired_at,
          started_in_window, seff_file, call, worker, recorded,
          projects_file, slurm_file, ret, partitions_file, quota_file,
          modules_file, bg,
          invoked, saving, written, merged>>

modvars == <<streaming_in_progress, modules_cache, modules_cache_timestamp,
             categories_file, spider_text, scan, preload, resp, acquired_at,
             started_in_window>>

seffvars == <<seff_file, call, worker, recorded>>

txtvars == <<partitions_file, quota_file, modules_file, bg, invoked>>

savevars == <<saving, written, merged>>

filevars == <<projects_file, slurm_file, ret, txtvars, savevars>>

(***************************************************************************)
(* Bounds of the model                                                     *)
(***************************************************************************)
\* number of SSE generators that can be alive at the same time
MaxStreams == 2
\* number of clock ticks
MaxTicks == 2
\* seconds per clock tick
TickLen == 200
\* number of request threads that can be inside _call_seff at the same time
MaxCalls == 2

Streams == 1..MaxStreams
Calls == 1..MaxCalls

(***************************************************************************)
(* Python values                                                           *)
(***************************************************************************)
None == <<>>
Some(x) == <<x>>
IsNone(o) == Len(o) = 0
Val(o) == o[1]

\* dict.update: entries of b replace and extend those of a
Update(a, b) == b @@ a

\* the empty dict
EmptyDict == [x \in {} |-> ""]

SeqToSet(q) == {q[i] : i \in 1..Len(q)}

(***************************************************************************)
(* External Command Gateway: _call_module_command                          *)
(***************************************************************************)
\* what the operating system can answer to one subprocess.run of bash -lc:
\* bash is found or not, the call raises or not, and otherwise exits with a
\* return code, a stdout text and a stderr text
ProcResult(bash, exc, rc, out, err) ==
    [bash |-> bash, exc |-> exc, rc |-> rc, stdout |-> out, stderr |-> err]

\* the process results the model draws from, for a command whose payload is text
ProcResults(text) ==
    { ProcResult(FALSE, "none", 0, <<>>, <<>>),
      ProcResult(TRUE, "timeout", 0, <<>>, <<>>),
      ProcResult(TRUE, "oserror", 0, <<>>, <<>>),
      ProcResult(TRUE, "none", 1, text, <<"failed">>),
      ProcResult(TRUE, "none", 0, <<>>, <<>>),
      ProcResult(TRUE, "none", 0, <<>>, text),
      ProcResult(TRUE, "none", 0, text, <<>>) }

Result(output, error) == [output |-> output, error |-> error]

_call_module_command(p) ==
    IF ~p.bash THEN Result(None, Some("bash binary not found"))
    ELSE IF p.exc = "timeout" THEN Result(None, Some("module command timed out"))
    ELSE IF p.exc = "oserror" THEN Result(None, Some("Error calling module command"))
    ELSE IF p.rc = 0 THEN
        LET output == IF Len(p.stdout) = 0 /\ Len(p.stderr) # 0
                      THEN p.stderr ELSE p.stdout
        IN  IF Len(output) = 0
            THEN Result(None, Some("module command returned empty output"))
            ELSE Result(Some(output), None)
    ELSE Result(None, Some("module command failed"))

(***************************************************************************)
(* The module system's listing and its parsing                             *)
(***************************************************************************)
\* lines that 'module -t spider' prints on the modelled cluster
LineGCC9 == <<"GCC", "9">>
LineGCC11 == <<"GCC", "11">>
LineSlicer == <<"rc", "Slicer", "5">>
LineZlib == <<"Zlib">>
LineRcDir == <<"rc", "">>

\* the texts 'module -t spider' can print
ListingOutputs ==
    { <<LineGCC11, LineGCC9>>,
      <<LineRcDir, LineSlicer, LineZlib>>,
      <<LineRcDir>> }

\* "not line or line.endswith('/')"
SkippedLine(line) == line[Len(line)] = ""

\* the family a listing line belongs to (modules.py:372-387)
FamilyOfLine(line) ==
    IF Len(line) > 2 THEN SubSeq(line, 1, Len(line) - 1) ELSE <<line[1]>>

\* dict: family name -> list of its full module/version lines, in output order
_parse_module_spider_output(output) ==
    LET kept == SelectSeq(output, LAMBDA l : ~SkippedLine(l))
        fams == {FamilyOfLine(kept[i]) : i \in 1..Len(kept)}
    IN  [f \in fams |->
            SelectSeq(kept, LAMBDA l : Len(l) > 1 /\ FamilyOfLine(l) = f)]

\* re.split(r'(\d+)', text) with convert() applied, for the lines of the model:
\* odd positions hold lower-cased text, even positions hold integers
_natural_sort_key(line) ==
    CASE line = LineGCC9 -> <<"gcc/", 9, "">>
      [] line = LineGCC11 -> <<"gcc/", 11, "">>
      [] line = LineSlicer -> <<"rc/slicer/", 5, "">>
      [] line = LineZlib -> <<"zlib">>
      [] OTHER -> <<"rc/">>

\* Python's order on the lower-cased text runs of the model
TextRank(t) ==
    CASE t = "" -> 0
      [] t = "gcc/" -> 1
      [] t = "rc/" -> 2
      [] t = "rc/slicer/" -> 3
      [] OTHER -> 4

\* Python's list comparison a < b of two natural sort keys
KeyLess(a, b) ==
    LET n == IF Len(a) < Len(b) THEN Len(a) ELSE Len(b)
        differ(i) == IF i % 2 = 1 THEN TextRank(a[i]) # TextRank(b[i])
                     ELSE a[i] # b[i]
        less(i) == IF i % 2 = 1 THEN TextRank(a[i]) < TextRank(b[i])
                   ELSE a[i] < b[i]
        D == {i \in 1..n : differ(i)}
    IN  IF D = {} THEN Len(a) < Len(b)
        ELSE LET i == CHOOSE j \in D : \A k \in D : j <= k IN less(i)

\* sorted(versions, key=_natural_sort_key)
SortVersions(versions) ==
    SortSeq(versions, LAMBDA a, b : KeyLess(_natural_sort_key(a), _natural_sort_key(b)))

\* Python's order on the family names of the model ("GCC" < "Zlib" < "rc/Slicer")
FamilyOrder == << <<"GCC">>, <<"Zlib">>, <<"rc", "Slicer">> >>
\* the same names ordered by name.lower() ("gcc" < "rc/slicer" < "zlib")
LowerOrder == << <<"GCC">>, <<"rc", "Slicer">>, <<"Zlib">> >>

\* sorted(modules_dict.keys())
SortedFamilies(fams) == SelectSeq(FamilyOrder, LAMBDA f : f \in fams)

\* base name of a family from its first version (modules.py:437-449)
BaseName(family_name, versions) ==
    IF Len(versions) > 0
    THEN LET first_version == versions[1]
         IN  IF Len(first_version) > 1
             THEN IF Len(first_version) > 2
                  THEN SubSeq(first_version, 1, Len(first_version) - 1)
                  ELSE <<first_version[1]>>
             ELSE family_name
    ELSE family_name

\* the record a scan yields for one family, description empty
GroupedModule(family_name, versions) ==
    [name |-> BaseName(family_name, SortVersions(versions)),
     versions |-> SortVersions(versions),
     description |-> ""]

\* sorted(all_modules, key=lambda m: m['name'].lower())
SortModules(all_modules) ==
    LET bucket(n) == SelectSeq(all_modules, LAMBDA m : m.name = n)
        F[i \in 0..Len(LowerOrder)] ==
            IF i = 0 THEN <<>> ELSE F[i - 1] \o bucket(LowerOrder[i])
    IN  F[Len(LowerOrder)]

(***************************************************************************)
(* Persistent description cache: config/module_categories.json             *)
(***************************************************************************)
\* the file: missing, not JSON, JSON that is not an object, or an object whose
\* keys other than 'descriptions' are the category map; the 'descriptions' key
\* is absent, an object, or something else
CatFile(kind, cats, dtype, desc) ==
    [kind |-> kind, cats |-> cats, dtype |-> dtype, desc |-> desc]

MissingFile == CatFile("missing", EmptyDict, "absent", EmptyDict)

_load_descriptions_cache(file) ==
    IF file.kind = "dict" /\ file.dtype = "dict" THEN file.desc ELSE EmptyDict

\* as _save_descriptions_cache, but a file that does not parse is left alone
_save_descriptions_cache_giving_up(file, cache) ==
    LET isdict == file.kind = "dict"
        categories == IF isdict THEN file.cats ELSE EmptyDict
        existing_descriptions == IF isdict /\ file.dtype = "dict" THEN file.desc
                                 ELSE EmptyDict
        descriptions == IF isdict /\ file.dtype = "other" THEN cache
                        ELSE Update(existing_descriptions, cache)
    IN  IF file.kind = "invalid" THEN file
        ELSE CatFile("dict", categories, "dict", descriptions)

_save_descriptions_cache(file, cache) ==
    LET isdict == file.kind = "dict"
        categories == IF isdict THEN file.cats ELSE EmptyDict
        existing_descriptions == IF isdict /\ file.dtype = "dict" THEN file.desc
                                 ELSE EmptyDict
        descriptions == IF isdict /\ file.dtype = "other" THEN cache
                        ELSE Update(existing_descriptions, cache)
    IN  CatFile("dict", categories, "dict", descriptions)

(***************************************************************************)
(* Per-family detail fetch                                                 *)
(***************************************************************************)
\* the texts 'module --redirect spider <name>' can print; a description is
\* kept as the sequence of its lines (the code joins them with blanks)
DetailOutputs ==
    { <<"Versions:", "x/1", "Description:", "text", "Dependencies:", "y">>,
      <<"Versions:", "x/1">> }

IsMarker(line) == line \in {"Versions:", "Description:", "Dependencies:"}

\* description_lines of _get_module_details (modules.py:287-345)
DescriptionLines(output) ==
    LET F[i \in 0..Len(output)] ==
            \* <<in_description_section, description_lines>> after line i
            IF i = 0 THEN <<FALSE, <<>>>>
            ELSE LET line == output[i]
                     prev == F[i - 1]
                 IN  IF line = "Description:" THEN <<TRUE, prev[2]>>
                     ELSE IF IsMarker(line) THEN <<FALSE, prev[2]>>
                     ELSE IF prev[1] THEN <<TRUE, Append(prev[2], line)>>
                     ELSE prev
    IN  F[Len(output)][2]

\* returns (details, error); details carries the description
_get_module_details(p) ==
    LET r == _call_module_command(p)
    IN  IF ~IsNone(r.error) THEN Result(None, None)
        ELSE Result(Some([description |-> DescriptionLines(Val(r.output))]), None)

\* fetch_description (modules.py:476-501): the triple's description and error,
\* and the entry it stores in new_descriptions, if any
Fetched(description, error, new) ==
    [description |-> description, error |-> error, new |-> new]

fetch_description(descriptions_cache, family_name, p) ==
    IF family_name \in DOMAIN descriptions_cache
    THEN Fetched(Some(descriptions_cache[family_name]), None, None)
    ELSE LET d == _get_module_details(p)
         IN  IF ~IsNone(d.error) THEN Fetched(None, None, None)
             ELSE IF IsNone(d.output) THEN Fetched(None, None, None)
             ELSE LET description == Val(d.output).description
                  IN  Fetched(Some(description), None,
                              IF Len(description) > 0 THEN Some(description) ELSE None)

(***************************************************************************)
(* Stream events                                                           *)
(***************************************************************************)
Event(type, name) == [type |-> type, name |-> name]
Progress == Event("progress", <<>>)

\* "completed % 10 == 0 or completed == total_families"
ProgressInterval == 10
ProgressDue(completed, total) == completed % ProgressInterval = 0 \/ completed = total

\* as CompletionEvents, but reporting a fetch without result as an error
CompletionEvents_fatal(completed, total, fetched, base_name) ==
    (IF ProgressDue(completed, total) THEN <<Progress>> ELSE <<>>)
    \o (IF IsNone(fetched.description) THEN <<Event("error", base_name)>>
        ELSE <<Event("module_update", base_name)>>)

\* what the enumerator yields when one detail fetch completes (modules.py:511-537)
CompletionEvents(completed, total, fetched, base_name) ==
    (IF ProgressDue(completed, total) THEN <<Progress>> ELSE <<>>)
    \o (IF ~IsNone(fetched.error) THEN <<>>
        ELSE <<Event("module_update", base_name)>>)

\* the events of the enumerator that refresh_modules.generate passes on to
\* the client (modules.py:896-911)
Forwarded(events) ==
    SelectSeq(events, LAMBDA e : e.type \in {"module", "progress", "complete", "error"})

(***************************************************************************)
(* Module catalog: state after import of blueprints/modules.py and app.py  *)
(***************************************************************************)
IdleScan ==
    [kind |-> "none", pc |-> "idle", events |-> <<>>, all_modules |-> <<>>,
     modules_dict |-> EmptyDict, module_name_map |-> EmptyDict,
     descriptions_cache |-> EmptyDict, pending |-> {}, completed |-> 0,
     new_descriptions |-> EmptyDict,
     \* history: the value of the flag when the generator started
     flag_at_start |-> FALSE]

\* a response: its status code and, of its body, 'in_progress'
\* (refresh_status), 'loading' (modules_list), cache_empty (the modules page)
\* and unique_count (both)
FullResponse(op, code, in_progress, loading, cache_empty, unique_count) ==
    [op |-> op, code |-> code, in_progress |-> in_progress, loading |-> loading,
     cache_empty |-> cache_empty, unique_count |-> unique_count]

Response(op, code, in_progress) ==
    FullResponse(op, code, in_progress, FALSE, FALSE, 0)

_get_cached_modules(cache) == IF ~IsNone(cache) THEN Val(cache) ELSE <<>>

\* how long the flag has been set (history)
HeldFor == IF streaming_in_progress THEN now - acquired_at ELSE 0

\* the persistent description files the model starts from
InitialCatFiles ==
    { MissingFile,
      CatFile("dict", EmptyDict, "dict", (<<"GCC">> :> <<"old">>)) }

InitModules(texts) ==
    /\ spider_text \in texts
    /\ streaming_in_progress = FALSE
    /\ modules_cache = None
    /\ modules_cache_timestamp = None
    /\ categories_file \in InitialCatFiles
    /\ scan = [s \in Streams |-> IdleScan]
    /\ preload = "running"
    /\ resp = Response("none", 0, FALSE)
    /\ acquired_at = 0
    /\ started_in_window = 0

(***************************************************************************)
(* Route handlers of the module catalog                                    *)
(***************************************************************************)
\* _clear_modules_cache
ClearedCache == None

\* refresh_start without the test of the flag
refresh_start_unguarded ==
    /\ streaming_in_progress' = TRUE
    /\ modules_cache' = ClearedCache
    /\ modules_cache_timestamp' = ClearedCache
    /\ acquired_at' = now
    /\ started_in_window' = started_in_window + 1
    /\ resp' = Response("refresh_start", 200, FALSE)
    /\ UNCHANGED <<categories_file, spider_text, scan, preload, now, seffvars, filevars>>

\* POST /modules/refresh-start
refresh_start ==
    /\ IF streaming_in_progress
       THEN /\ resp' = Response("refresh_start", 409, FALSE)
            /\ UNCHANGED <<streaming_in_progress, modules_cache,
                           modules_cache_timestamp, acquired_at, started_in_window>>
       ELSE /\ streaming_in_progress' = TRUE
            /\ modules_cache' = ClearedCache
            /\ modules_cache_timestamp' = ClearedCache
            /\ acquired_at' = now
            /\ started_in_window' = started_in_window + 1
            /\ resp' = Response("refresh_start", 200, FALSE)
    /\ UNCHANGED <<categories_file, spider_text, scan, preload, now, seffvars, filevars>>

\* as load_descriptions, but a start that is accepted clears the cache
load_descriptions_clearing ==
    /\ IF streaming_in_progress
       THEN /\ resp' = Response("load_descriptions", 409, FALSE)
            /\ UNCHANGED <<streaming_in_progress, acquired_at, started_in_window,
                           modules_cache, modules_cache_timestamp>>
       ELSE IF IsNone(modules_cache) \/ Len(Val(modules_cache)) = 0
       THEN /\ resp' = Response("load_descriptions", 400, FALSE)
            /\ UNCHANGED <<streaming_in_progress, acquired_at, started_in_window,
                           modules_cache, modules_cache_timestamp>>
       ELSE /\ streaming_in_progress' = TRUE
            /\ modules_cache' = ClearedCache
            /\ modules_cache_timestamp' = ClearedCache
            /\ acquired_at' = now
            /\ started_in_window' = started_in_window + 1
            /\ resp' = Response("load_descriptions", 200, FALSE)
    /\ UNCHANGED <<categories_file, spider_text, scan, preload, now, seffvars, filevars>>

\* POST /modules/load-descriptions
load_descriptions ==
    /\ IF streaming_in_progress
       THEN /\ resp' = Response("load_descriptions", 409, FALSE)
            /\ UNCHANGED <<streaming_in_progress, acquired_at, started_in_window>>
       ELSE IF IsNone(modules_cache) \/ Len(Val(modules_cache)) = 0
       THEN /\ resp' = Response("load_descriptions", 400, FALSE)
            /\ UNCHANGED <<streaming_in_progress, acquired_at, started_in_window>>
       ELSE /\ streaming_in_progress' = TRUE
            /\ acquired_at' = now
            /\ started_in_window' = started_in_window + 1
            /\ resp' = Response("load_descriptions", 200, FALSE)
    /\ UNCHANGED <<modules_cache, modules_cache_timestamp, categories_file,
                   spider_text, scan, preload, now, seffvars, filevars>>

\* GET /modules/refresh-status
refresh_status ==
    /\ resp' = Response("refresh_status", 200, streaming_in_progress)
    /\ UNCHANGED <<streaming_in_progress, modules_cache, modules_cache_timestamp,
                   categories_file, spider_text, scan, preload, now, acquired_at,
                   started_in_window, seffvars, filevars>>

\* GET /modules/: the modules page
modules ==
    /\ LET grouped_modules == _get_cached_modules(modules_cache)
           cache_exists == ~IsNone(modules_cache) /\ Len(grouped_modules) > 0
       IN  resp' = FullResponse("modules", 200, FALSE, FALSE, ~cache_exists,
                                Len(grouped_modules))
    /\ UNCHANGED <<streaming_in_progress, modules_cache, modules_cache_timestamp,
                   categories_file, spider_text, scan, preload, now, acquired_at,
                   started_in_window, seffvars, filevars>>

\* GET /modules/list
modules_list ==
    /\ LET grouped_modules == _get_cached_modules(modules_cache)
       IN  resp' = FullResponse("modules_list", 200, FALSE, FALSE, FALSE,
                                Len(grouped_modules))
    /\ UNCHANGED <<streaming_in_progress, modules_cache, modules_cache_timestamp,
                   categories_file, spider_text, scan, preload, now, acquired_at,
                   started_in_window, seffvars, filevars>>

\* the clock advances
Tick ==
    /\ now + TickLen <= MaxTicks * TickLen
    /\ now' = now + TickLen
    /\ UNCHANGED <<modvars, seffvars, filevars>>

(***************************************************************************)
(* SSE generators: refresh_modules.generate (kind "refresh", which drives  *)
(* _get_all_modules_two_stage_streaming) and stream_descriptions.generate  *)
(* (kind "descriptions").  A generator is suspended between two actions;   *)
(* events holds what the enumerator has yielded so far.                    *)
(***************************************************************************)
ScanKinds == {"refresh", "descriptions"}

\* a generator is alive: created and neither returned nor closed
Running(sc) == sc.pc \in {"listing", "listed", "fetching", "error_yield", "last_yield"}

\* what the client of the stream has been sent
Sent(sc) == IF sc.kind = "refresh" THEN Forwarded(sc.events) ELSE sc.events

\* GET /modules/refresh-stream or /modules/descriptions-stream: the generator
\* starts, yields its first progress event and calls 'module -t spider'
OpenStream(s, kind) ==
    /\ ~Running(scan[s])
    \* a new connection takes the lowest free slot (slots are interchangeable)
    /\ \A t \in Streams : t < s => Running(scan[t])
    /\ scan' = [scan EXCEPT ![s] = [IdleScan EXCEPT !.kind = kind,
                                                     !.pc = "listing",
                                                     !.events = <<Progress>>,
                                                     !.flag_at_start = streaming_in_progress]]
    /\ UNCHANGED <<streaming_in_progress, modules_cache, modules_cache_timestamp,
                   categories_file, spider_text, preload, resp, now, acquired_at,
                   started_in_window, seffvars, filevars>>

\* module_name_map built from the parsed listing
NameMap(modules_dict) ==
    [f \in DOMAIN modules_dict |-> BaseName(f, SortVersions(modules_dict[f]))]

\* 'module -t spider' returns
ListDone(s, p) ==
    /\ scan[s].pc = "listing"
    /\ LET r == _call_module_command(p)
           sc == scan[s]
       IN  IF ~IsNone(r.error)
           THEN scan' = [scan EXCEPT ![s] =
                    [sc EXCEPT !.pc = "error_yield",
                               !.events = Append(sc.events, Event("error", <<>>))]]
           ELSE LET modules_dict == _parse_module_spider_output(Val(r.output))
                IN  IF sc.kind = "refresh"
                    THEN scan' = [scan EXCEPT ![s] =
                            [sc EXCEPT !.pc = "listed",
                                       !.modules_dict = modules_dict,
                                       !.events = Append(sc.events, Progress)]]
                    ELSE scan' = [scan EXCEPT ![s] =
                            [sc EXCEPT !.pc = "fetching",
                                       !.modules_dict = modules_dict,
                                       !.module_name_map = NameMap(modules_dict),
                                       !.descriptions_cache = _load_descriptions_cache(categories_file),
                                       !.pending = DOMAIN modules_dict,
                                       !.events = Append(sc.events, Event("descriptions_start", <<>>))]]
    /\ UNCHANGED <<streaming_in_progress, modules_cache, modules_cache_timestamp,
                   categories_file, spider_text, preload, resp, now, acquired_at,
                   started_in_window, seffvars, filevars>>

\* as GroupedModules, but skipping the families without versions, the way
\* _group_modules_by_name does
GroupedModules_skip_empty(modules_dict) ==
    LET families == SelectSeq(SortedFamilies(DOMAIN modules_dict),
                              LAMBDA f : Len(modules_dict[f]) > 0)
    IN  [i \in 1..Len(families) |-> GroupedModule(families[i], modules_dict[families[i]])]

\* the records the enumerator yields as module events, one per family in
\* sorted order (modules.py:434-463)
GroupedModules(modules_dict) ==
    LET families == SortedFamilies(DOMAIN modules_dict)
    IN  [i \in 1..Len(families) |-> GroupedModule(families[i], modules_dict[families[i]])]

ModuleEvents(grouped) ==
    [i \in 1..Len(grouped) |-> Event("module", grouped[i].name)]

\* step 2 of the enumerator: one module event per family, then the
\* description phase starts and every family's fetch is submitted to the pool
EmitModules(s) ==
    /\ scan[s].pc = "listed"
    /\ LET sc == scan[s]
       IN  scan' = [scan EXCEPT ![s] =
               [sc EXCEPT !.pc = "fetching",
                          !.module_name_map = NameMap(sc.modules_dict),
                          !.all_modules = GroupedModules(sc.modules_dict),
                          !.descriptions_cache = _load_descriptions_cache(categories_file),
                          !.pending = DOMAIN sc.modules_dict,
                          !.events = sc.events \o ModuleEvents(GroupedModules(sc.modules_dict))
                                     \o <<Event("descriptions_start", <<>>), Progress>>]]
    /\ UNCHANGED <<streaming_in_progress, modules_cache, modules_cache_timestamp,
                   categories_file, spider_text, preload, resp, now, acquired_at,
                   started_in_window, seffvars, filevars>>

\* as_completed hands over the finished fetch of one family
Completion(s, family_name, p) ==
    /\ scan[s].pc = "fetching"
    /\ family_name \in scan[s].pending
    /\ LET sc == scan[s]
           fetched == fetch_description(sc.descriptions_cache, family_name, p)
           completed == sc.completed + 1
       IN  scan' = [scan EXCEPT ![s] =
               [sc EXCEPT !.pending = sc.pending \ {family_name},
                          !.completed = completed,
                          !.new_descriptions =
                              IF IsNone(fetched.new) THEN sc.new_descriptions
                              ELSE Update(sc.new_descriptions, (family_name :> Val(fetched.new))),
                          !.events = sc.events \o
                              CompletionEvents(completed, Cardinality(DOMAIN sc.modules_dict), fetched,
                                               sc.module_name_map[family_name])]]
    /\ UNCHANGED <<streaming_in_progress, modules_cache, modules_cache_timestamp,
                   categories_file, spider_text, preload, resp, now, acquired_at,
                   started_in_window, seffvars, filevars>>

\* as FinishPool, but the modules are stored in the order of their events
FinishPool_unsorted(s) ==
    /\ scan[s].pc = "fetching"
    /\ scan[s].pending = {}
    /\ LET sc == scan[s]
       IN  /\ categories_file' =
                 IF DOMAIN sc.new_descriptions # {}
                 THEN _save_descriptions_cache(categories_file,
                          Update(sc.descriptions_cache, sc.new_descriptions))
                 ELSE categories_file
           /\ IF sc.kind = "refresh"
              THEN /\ modules_cache' = Some(sc.all_modules)
                   /\ modules_cache_timestamp' = Some(now)
                   /\ scan' = [scan EXCEPT ![s] =
                          [sc EXCEPT !.pc = "last_yield",
                                     !.events = sc.events \o
                                         <<Event("descriptions_complete", <<>>),
                                           Event("complete", <<>>)>>]]
              ELSE /\ UNCHANGED <<modules_cache, modules_cache_timestamp>>
                   /\ scan' = [scan EXCEPT ![s] =
                          [sc EXCEPT !.pc = "last_yield",
                                     !.events = Append(sc.events,
                                         Event("descriptions_complete", <<>>))]]
    /\ UNCHANGED <<streaming_in_progress, spider_text, preload, resp, now,
                   acquired_at, started_in_window, seffvars, filevars>>

\* the pool is drained: new descriptions are merged into the file, the
\* enumerator yields its last events and, for a refresh, generate() stores
\* the collected modules in the cache
FinishPool(s) ==
    /\ scan[s].pc = "fetching"
    /\ scan[s].pending = {}
    /\ LET sc == scan[s]
       IN  /\ categories_file' =
                 IF DOMAIN sc.new_descriptions # {}
                 THEN _save_descriptions_cache(categories_file,
                          Update(sc.descriptions_cache, sc.new_descriptions))
                 ELSE categories_file
           /\ IF sc.kind = "refresh"
              THEN /\ modules_cache' = Some(SortModules(sc.all_modules))
                   /\ modules_cache_timestamp' = Some(now)
                   /\ scan' = [scan EXCEPT ![s] =
                          [sc EXCEPT !.pc = "last_yield",
                                     !.events = sc.events \o
                                         <<Event("descriptions_complete", <<>>),
                                           Event("complete", <<>>)>>]]
              ELSE /\ UNCHANGED <<modules_cache, modules_cache_timestamp>>
                   /\ scan' = [scan EXCEPT ![s] =
                          [sc EXCEPT !.pc = "last_yield",
                                     !.events = Append(sc.events,
                                         Event("descriptions_complete", <<>>))]]
    /\ UNCHANGED <<streaming_in_progress, spider_text, preload, resp, now,
                   acquired_at, started_in_window, seffvars, filevars>>

\* the finally clause of generate()
ReleaseFlag ==
    /\ streaming_in_progress' = FALSE
    /\ started_in_window' = 0

\* the generator is resumed after its last yield and returns
Return(s) ==
    /\ scan[s].pc \in {"error_yield", "last_yield"}
    /\ scan' = [scan EXCEPT ![s] = [IdleScan EXCEPT !.pc = "done"]]
    /\ ReleaseFlag
    /\ UNCHANGED <<modules_cache, modules_cache_timestamp, categories_file,
                   spider_text, preload, resp, now, acquired_at, seffvars, filevars>>

\* the client has gone: the server closes the generator at the yield it is
\* suspended in (GeneratorExit), and only the finally clause runs
Close(s) ==
    /\ Running(scan[s])
    /\ scan' = [scan EXCEPT ![s] = [IdleScan EXCEPT !.pc = "closed"]]
    /\ ReleaseFlag
    /\ UNCHANGED <<modules_cache, modules_cache_timestamp, categories_file,
                   spider_text, preload, resp, now, acquired_at, seffvars, filevars>>

(***************************************************************************)
(* Startup thread _preload_modules_cache (app.py:208)                      *)
(***************************************************************************)
\* as PreloadFinish, but a failed preload empties the cache
PreloadFinish_clearing(p) ==
    /\ preload = "running"
    /\ LET r == _call_module_command(p)
       IN  IF ~IsNone(r.error)
           THEN /\ preload' = "failed"
                /\ modules_cache' = None
                /\ modules_cache_timestamp' = None
           ELSE LET modules_dict == _parse_module_spider_output(Val(r.output))
                IN  /\ preload' = "done"
                    /\ modules_cache' = Some(SortModules(GroupedModules(modules_dict)))
                    /\ modules_cache_timestamp' = Some(now)
    /\ UNCHANGED <<streaming_in_progress, categories_file, spider_text, scan,
                   resp, now, acquired_at, started_in_window, seffvars, filevars>>

\* 'module -t spider' of the preload returns and the thread ends: "failed"
\* after one of the early returns (modules.py:1069-1075; the gateway never
\* returns a blank output, so the second return repeats the first), "done"
\* after the cache was written
PreloadFinish(p) ==
    /\ preload = "running"
    /\ preload' = IF ~IsNone(_call_module_command(p).error) THEN "failed" ELSE "done"
    /\ LET r == _call_module_command(p)
       IN  IF ~IsNone(r.error)
           THEN UNCHANGED <<modules_cache, modules_cache_timestamp>>
           ELSE LET modules_dict == _parse_module_spider_output(Val(r.output))
                IN  /\ modules_cache' = Some(SortModules(GroupedModules(modules_dict)))
                    /\ modules_cache_timestamp' = Some(now)
    /\ UNCHANGED <<streaming_in_progress, categories_file, spider_text, scan,
                   resp, now, acquired_at, started_in_window, seffvars, filevars>>

(***************************************************************************)
(* Per-job efficiency cache: _call_seff, _load_seff_cache,                  *)
(* _save_seff_cache and the preload_worker of _preload_seff_cache           *)
(***************************************************************************)
Jobs == {"101", "102"}

\* how a run of seff can end: binary not found, exit code 0, exit code not 0,
\* timeout, any other exception
SeffOutcomes == {"notfound", "ok", "nonzero", "timeout", "oserror"}

\* the (output, error) pair _call_seff returns for each outcome
SeffResult(outcome) ==
    CASE outcome = "ok" -> Result(Some("report"), None)
      [] outcome = "notfound" -> Result(None, Some("seff binary not found in standard locations"))
      [] outcome = "nonzero" -> Result(None, Some("seff failed"))
      [] outcome = "timeout" -> Result(None, Some("seff command timed out"))
      [] OTHER -> Result(None, Some("Error calling seff"))

\* the cache entry written for a result
SeffEntry(result, timestamp) ==
    [output |-> result.output, error |-> result.error, timestamp |-> timestamp]

\* logs/seff_cache.json; an object maps job id -> entry
\* missing, not JSON ("invalid": empty, cut short or garbage), JSON that is
\* not an object ("other"), or an object ("dict")
SeffFile(kind, dict) == [kind |-> kind, dict |-> dict]

MissingSeffFile == SeffFile("missing", EmptyDict)

_load_seff_cache(file) == IF file.kind = "dict" THEN file.dict ELSE EmptyDict

\* the file after open('w') and json.dump have both run
_save_seff_cache(file, cache) == SeffFile("dict", cache)

IdleCall == [pc |-> "idle"]

\* GET /jobs/efficiency/<job_id>: job_efficiency calls _call_seff with
\* use_cache=True; a cached entry is returned at once (jobs.py:192-197)
CallBegin(c, job_id, force_refresh) ==
    /\ call[c].pc = "idle"
    /\ LET cache == _load_seff_cache(seff_file)
       IN  IF ~force_refresh /\ job_id \in DOMAIN cache
           THEN UNCHANGED call
           ELSE call' = [call EXCEPT ![c] =
                    [pc |-> "run", job_id |-> job_id, force_refresh |-> force_refresh,
                     after_record |-> job_id \in recorded]]
    /\ UNCHANGED <<modvars, filevars, now, seff_file, worker, recorded>>

\* find_binary and subprocess.run of seff end (jobs.py:200-247)
CallRun(c, outcome) ==
    /\ call[c].pc = "run"
    /\ call' = [call EXCEPT ![c] =
           [pc |-> "load", job_id |-> call[c].job_id,
            force_refresh |-> call[c].force_refresh,
            result |-> SeffResult(outcome)]]
    /\ UNCHANGED <<modvars, filevars, now, seff_file, worker, recorded>>

\* cache = _load_seff_cache(); cache[job_id] = {...}
CallLoad(c) ==
    /\ call[c].pc = "load"
    /\ call' = [call EXCEPT ![c] =
           [pc |-> "save", job_id |-> call[c].job_id,
            force_refresh |-> call[c].force_refresh,
            cache |-> Update(_load_seff_cache(seff_file),
                             (call[c].job_id :> SeffEntry(call[c].result, now)))]]
    /\ UNCHANGED <<modvars, filevars, now, seff_file, worker, recorded>>

\* _save_seff_cache(cache) and return
CallSave(c) ==
    /\ call[c].pc = "save"
    /\ seff_file' = _save_seff_cache(seff_file, call[c].cache)
    /\ recorded' = recorded \cup {call[c].job_id}
    /\ call' = [call EXCEPT ![c] = IdleCall]
    /\ UNCHANGED <<modvars, filevars, now, worker>>

\* the job lists sacct can report to the preload worker
SacctJobs == { <<"101", "102">> }

\* "new_count % 10 == 0 or idx == len(jobs)"
SavePeriod == 10
SaveDue(new_count, idx, total) == new_count % SavePeriod = 0 \/ idx = total

\* _preload_seff_cache: the worker thread lists the jobs and loads the cache
\* once (jobs.py:649-674)
WorkerStart(jobs) ==
    /\ worker.pc = "idle"
    /\ worker' = [pc |-> "loop", jobs |-> jobs, idx |-> 1, new_count |-> 0,
                  cache |-> _load_seff_cache(seff_file)]
    /\ UNCHANGED <<modvars, filevars, now, seff_file, call, recorded>>

\* the worker cannot list the jobs or finds no seff binary
WorkerGiveUp ==
    /\ worker.pc = "idle"
    /\ worker' = [pc |-> "done"]
    /\ UNCHANGED <<modvars, filevars, now, seff_file, call, recorded>>

\* one iteration of the worker's loop (jobs.py:677-733)
WorkerJob(outcome) ==
    /\ worker.pc = "loop"
    /\ worker.idx <= Len(worker.jobs)
    /\ LET job_id == worker.jobs[worker.idx]
           total == Len(worker.jobs)
       IN  IF job_id \in DOMAIN worker.cache
           THEN /\ worker' = [worker EXCEPT !.idx = worker.idx + 1]
                /\ UNCHANGED <<seff_file, recorded>>
           ELSE LET cache == Update(worker.cache,
                                    (job_id :> SeffEntry(SeffResult(outcome), now)))
                    new_count == IF outcome = "ok" THEN worker.new_count + 1
                                 ELSE worker.new_count
                    saves == outcome \in {"ok", "nonzero"}
                             /\ SaveDue(new_count, worker.idx, total)
                IN  /\ worker' = [worker EXCEPT !.idx = worker.idx + 1,
                                                !.cache = cache,
                                                !.new_count = new_count]
                    /\ seff_file' = IF saves THEN _save_seff_cache(seff_file, cache)
                                    ELSE seff_file
                    /\ recorded' = IF saves THEN recorded \cup DOMAIN cache ELSE recorded
    /\ UNCHANGED <<modvars, filevars, now, call>>

\* the final save of the worker (jobs.py:735-737)
WorkerFinal ==
    /\ worker.pc = "loop"
    /\ worker.idx > Len(worker.jobs)
    /\ seff_file' = _save_seff_cache(seff_file, worker.cache)
    /\ recorded' = recorded \cup DOMAIN worker.cache
    /\ worker' = [pc |-> "done"]
    /\ UNCHANGED <<modvars, filevars, now, call>>

(***************************************************************************)
(* Age-checked cache files: logs/projects_cache.json and                   *)
(* logs/slurm_load.txt                                                     *)
(***************************************************************************)
\* projects.py:23
CACHE_VALIDITY_SECONDS == 3600
\* jobs.py:421, "if file_age > 600"
SlurmLoadMaxAge == 600

\* the projects cache file: missing, not JSON ("invalid"), JSON that is not an
\* object ("other"), or an object ("dict"); of an object: whether the three
\* required keys are present, its 'timestamp', whether 'projects' is a list,
\* and its 'directories' and 'projects'
ProjectsFile(kind, fields, timestamp, plist, directories, projects) ==
    [kind |-> kind, fields |-> fields, timestamp |-> timestamp, plist |-> plist,
     directories |-> directories, projects |-> projects]

MissingProjectsFile == ProjectsFile("missing", FALSE, 0, FALSE, <<>>, <<>>)

\* as _load_projects_cache, but a cache whose age equals the limit has expired
_load_projects_cache_strict(file, t) ==
    IF file.kind # "dict" THEN None
    ELSE IF ~file.fields THEN None
    ELSE LET cache_age == t - file.timestamp
         IN  IF cache_age < 0 THEN None
             ELSE IF cache_age >= CACHE_VALIDITY_SECONDS THEN None
             ELSE IF ~file.plist THEN None
             ELSE Some([timestamp |-> file.timestamp,
                        directories |-> file.directories,
                        projects |-> file.projects])

\* the cache dict, or None; t is time.time()
_load_projects_cache(file, t) ==
    IF file.kind # "dict" THEN None
    ELSE IF ~file.fields THEN None
    ELSE LET cache_age == t - file.timestamp
         IN  IF cache_age < 0 THEN None
             ELSE IF cache_age > CACHE_VALIDITY_SECONDS THEN None
             ELSE IF ~file.plist THEN None
             ELSE Some([timestamp |-> file.timestamp,
                        directories |-> file.directories,
                        projects |-> file.projects])

\* the file after _save_projects_cache has run to its end at time t
_save_projects_cache(projects_data, directories, t) ==
    ProjectsFile("dict", TRUE, t, TRUE, directories, projects_data)

\* logs/slurm_load.txt, written by a cron job outside the application: its
\* st_mtime and its content, which is blank, a report with the known
\* 'label: number' lines ("report"), a report with a number that does not
\* parse ("badnumber"), or text without any known label ("unknown")
SlurmFile(exists, mtime, content) ==
    [exists |-> exists, mtime |-> mtime, content |-> content]

SlurmContents == {"blank", "report", "badnumber", "unknown"}

\* load_data of a report
LoadData == [allocated_nodes |-> 71, idle_nodes |-> 24]

\* the load_data dict, or None; t is time.time()
_parse_slurm_load(file, t) ==
    IF ~file.exists THEN None
    ELSE LET file_age == t - file.mtime
         IN  IF file_age > SlurmLoadMaxAge THEN None
             ELSE IF file.content = "blank" THEN None
             ELSE IF file.content = "badnumber" THEN None
             ELSE IF file.content = "unknown" THEN None
             ELSE Some(LoadData)

\* what a read or a gateway call returned
Ret(op, value) == [op |-> op, value |-> value]

NoRet == Ret("none", None)

\* _collect_projects_data reads the cache (projects.py:761)
ReadProjects ==
    /\ ret' = Ret("_load_projects_cache", _load_projects_cache(projects_file, now))
    /\ UNCHANGED <<modvars, seffvars, savevars, now, projects_file, slurm_file, txtvars>>

\* the jobs page reads the load snapshot (jobs.py:777)
ReadSlurmLoad ==
    /\ ret' = Ret("_parse_slurm_load", _parse_slurm_load(slurm_file, now))
    /\ UNCHANGED <<modvars, seffvars, savevars, now, projects_file, slurm_file, txtvars>>

(***************************************************************************)
(* Text files kept fresh by scripts, the startup threads of app.py that    *)
(* run the scripts, and the handlers that show the data                    *)
(***************************************************************************)
\* logs/partitions.txt or logs/disk_quota.txt: st_mtime and content, which is
\* blank or a report
TxtFile(exists, mtime, content) ==
    [exists |-> exists, mtime |-> mtime, content |-> content]

MissingTxtFile == TxtFile(FALSE, 0, "blank")

\* "if file_age < 300" (app.py:121 and app.py:176)
RecentSeconds == 300

\* the early return of update_partitions_background
PartitionsRecent(file, t) == file.exists /\ t - file.mtime < RecentSeconds

\* the early return of update_disk_quota_background(force)
QuotaRecent(force, file, t) == ~force /\ file.exists /\ t - file.mtime < RecentSeconds

\* how a run of scripts/update_partitions.sh or scripts/get_disk_quota.sh can
\* end: exit code 0 with a report in the file, exit code 0 with a blank file,
\* or a failure (nonzero exit code, timeout, OS error) that leaves the file
ScriptOutcomes == {"written", "blank", "failed"}

AfterScript(file, outcome, t) ==
    CASE outcome = "written" -> TxtFile(TRUE, t, "report")
      [] outcome = "blank" -> TxtFile(TRUE, t, "blank")
      [] OTHER -> file

\* update_partitions_background up to the call of the script
PartitionsDecide(script_exists) ==
    /\ bg.partitions = "start"
    /\ bg' = [bg EXCEPT !.partitions =
                 IF PartitionsRecent(partitions_file, now) THEN "skipped"
                 ELSE IF script_exists THEN "running" ELSE "noscript"]
    /\ UNCHANGED <<modvars, seffvars, savevars, now, projects_file, slurm_file, ret,
                   partitions_file, quota_file, modules_file, invoked>>

\* the script of update_partitions_background ends
PartitionsScriptEnd(outcome) ==
    /\ bg.partitions = "running"
    /\ partitions_file' = AfterScript(partitions_file, outcome, now)
    /\ bg' = [bg EXCEPT !.partitions = "done"]
    /\ UNCHANGED <<modvars, seffvars, savevars, now, projects_file, slurm_file, ret,
                   quota_file, modules_file, invoked>>

\* update_disk_quota_background(force=True), the only call there is
\* (app.py:203), up to the call of the script
QuotaDecide(script_exists) ==
    /\ bg.quota = "start"
    /\ bg' = [bg EXCEPT !.quota =
                 IF QuotaRecent(TRUE, quota_file, now) THEN "skipped"
                 ELSE IF script_exists THEN "running" ELSE "noscript"]
    /\ UNCHANGED <<modvars, seffvars, savevars, now, projects_file, slurm_file, ret,
                   partitions_file, quota_file, modules_file, invoked>>

\* the script of update_disk_quota_background ends
QuotaScriptEnd(outcome) ==
    /\ bg.quota = "running"
    /\ quota_file' = AfterScript(quota_file, outcome, now)
    /\ bg' = [bg EXCEPT !.quota = "done"]
    /\ UNCHANGED <<modvars, seffvars, savevars, now, projects_file, slurm_file, ret,
                   partitions_file, modules_file, invoked>>

\* "if file_age < 3600" (app.py:74)
ModulesRecentSeconds == 3600

\* the early return of update_modules_background
ModulesRecent(file, t) == file.exists /\ t - file.mtime < ModulesRecentSeconds

\* update_modules_background up to the call of the script
ModulesDecide(script_exists) ==
    /\ bg.modules = "start"
    /\ bg' = [bg EXCEPT !.modules =
                 IF ModulesRecent(modules_file, now) THEN "skipped"
                 ELSE IF script_exists THEN "running" ELSE "noscript"]
    /\ UNCHANGED <<modvars, seffvars, savevars, now, projects_file, slurm_file, ret,
                   partitions_file, quota_file, modules_file, invoked>>

\* the script of update_modules_background ends
ModulesScriptEnd(outcome) ==
    /\ bg.modules = "running"
    /\ modules_file' = AfterScript(modules_file, outcome, now)
    /\ bg' = [bg EXCEPT !.modules = "done"]
    /\ UNCHANGED <<modvars, seffvars, savevars, now, projects_file, slurm_file, ret,
                   partitions_file, quota_file, invoked>>

\* quota_data of a report
QuotaData == [home |-> "131.95GB of 5368.71GB", scratch |-> "1.39GB"]

\* the quota_data dict, or None
_parse_disk_quota(file) ==
    IF ~file.exists THEN None
    ELSE IF file.content = "report" THEN Some(QuotaData)
    ELSE None

\* GET /: the home page
index ==
    /\ ret' = Ret("index", _parse_disk_quota(quota_file))
    /\ invoked' = {}
    /\ UNCHANGED <<modvars, seffvars, savevars, now, projects_file, slurm_file,
                   partitions_file, quota_file, modules_file, bg>>

\* lines of 'sinfo -s'
SinfoHeader == "PARTITION AVAIL TIMELIMIT NODES(A/I/O/T) NODELIST"
SinfoRow == "interactive up 2:00:00 71/24/4/99 c[0136-0149]"
SinfoJunk == "slurm_load_partitions: error"

SinfoOutputs ==
    { <<SinfoHeader, SinfoRow>>, <<SinfoHeader, SinfoJunk>>, <<SinfoHeader>> }

\* a process result: bash says whether find_binary found the binary
_call_sinfo(p) ==
    IF ~p.bash THEN Result(None, Some("sinfo binary not found in standard locations"))
    ELSE IF p.exc = "timeout" THEN Result(None, Some("sinfo command timed out"))
    ELSE IF p.exc = "oserror" THEN Result(None, Some("Error calling sinfo"))
    ELSE IF p.rc = 0 THEN Result(Some(p.stdout), None)
    ELSE Result(None, Some("sinfo failed"))

\* the lines after the header that match the pattern of a partition row; the
\* model has one such row, so the final sort has nothing to reorder
_parse_sinfo_output(output) ==
    IF Len(output) < 2 THEN <<>>
    ELSE SelectSeq(Tail(output), LAMBDA line : line = SinfoRow)

_get_partition_info(p) ==
    LET r == _call_sinfo(p)
    IN  IF ~IsNone(r.error) THEN Result(None, r.error)
        ELSE IF Len(Val(r.output)) = 0
             THEN Result(None, Some("sinfo returned empty output"))
        ELSE LET partitions == _parse_sinfo_output(Val(r.output))
             IN  IF Len(partitions) = 0
                 THEN Result(None, Some("No partition data found in sinfo output."))
                 ELSE Result(Some(partitions), None)

\* GET /jobs/: the partition part of the jobs page
jobs(p) ==
    /\ ret' = Ret("_get_partition_info", _get_partition_info(p))
    /\ invoked' = IF p.bash THEN {"sinfo"} ELSE {}
    /\ UNCHANGED <<modvars, seffvars, savevars, now, projects_file, slurm_file,
                   partitions_file, quota_file, modules_file, bg>>

InitTxtIdle ==
    /\ partitions_file = MissingTxtFile
    /\ quota_file = MissingTxtFile
    /\ modules_file = MissingTxtFile
    /\ bg = [partitions |-> "start", quota |-> "start", modules |-> "start"]
    /\ invoked = {}

(***************************************************************************)
(* The writes of the three JSON cache files, step by step:                 *)
(* _save_seff_cache, _save_projects_cache, _save_descriptions_cache        *)
(***************************************************************************)
CacheKeys == {"seff", "projects", "descriptions"}

\* a file that open('w') has just cut to length 0, or that holds only the
\* first part of what json.dump writes: not JSON
TruncatedSeffFile == SeffFile("invalid", EmptyDict)
TruncatedProjectsFile == ProjectsFile("invalid", FALSE, 0, FALSE, <<>>, <<>>)
TruncatedCatFile == CatFile("invalid", EmptyDict, "absent", EmptyDict)

\* the payloads the model saves
SeffPayload == ("101" :> SeffEntry(Result(Some("report"), None), 0))
ProjectsPayload == <<"p">>
DescriptionsPayload == (<<"GCC">> :> <<"text">>)

IdleSave == [pc |-> "idle"]

\* a thread enters the _save_* function of the file and builds what it is
\* going to write; _save_descriptions_cache reads the existing file for that
SaveBegin(key) ==
    /\ saving[key].pc = "idle"
    /\ saving' = [saving EXCEPT ![key] =
          [pc |-> "entered",
           data |-> CASE key = "seff" -> _save_seff_cache(seff_file, SeffPayload)
                      [] key = "projects" -> _save_projects_cache(ProjectsPayload, <<"d">>, now)
                      [] OTHER -> _save_descriptions_cache(categories_file, DescriptionsPayload)]]
    /\ UNCHANGED <<streaming_in_progress, modules_cache, modules_cache_timestamp,
                   categories_file, spider_text, scan, preload, resp, now, acquired_at,
                   started_in_window, seffvars, projects_file, slurm_file, ret,
                   txtvars, written, merged>>

\* FILE.open('w', encoding='utf-8')
SaveOpen(key) ==
    /\ saving[key].pc = "entered"
    /\ saving' = [saving EXCEPT ![key].pc = "opened"]
    /\ seff_file' = IF key = "seff" THEN TruncatedSeffFile ELSE seff_file
    /\ projects_file' = IF key = "projects" THEN TruncatedProjectsFile ELSE projects_file
    /\ categories_file' = IF key = "descriptions" THEN TruncatedCatFile ELSE categories_file
    /\ UNCHANGED <<streaming_in_progress, modules_cache, modules_cache_timestamp,
                   spider_text, scan, preload, resp, now, acquired_at,
                   started_in_window, call, worker, recorded, slurm_file, ret,
                   txtvars, written, merged>>

\* json.dump(...) and the close of the file
SaveDump(key) ==
    /\ saving[key].pc = "opened"
    /\ saving' = [saving EXCEPT ![key] = IdleSave]
    /\ seff_file' = IF key = "seff" THEN saving[key].data ELSE seff_file
    /\ projects_file' = IF key = "projects" THEN saving[key].data ELSE projects_file
    /\ categories_file' = IF key = "descriptions" THEN saving[key].data ELSE categories_file
    /\ written' = [written EXCEPT ![key] = TRUE]
    /\ UNCHANGED <<streaming_in_progress, modules_cache, modules_cache_timestamp,
                   spider_text, scan, preload, resp, now, acquired_at,
                   started_in_window, call, worker, recorded, slurm_file, ret,
                   txtvars, merged>>

\* a thread reads the efficiency cache (jobs.py:192, 204, 223)
LoadSeff ==
    /\ ret' = Ret("_load_seff_cache", _load_seff_cache(seff_file))
    /\ UNCHANGED <<modvars, seffvars, savevars, now, projects_file, slurm_file, txtvars>>

\* a thread reads the description cache (modules.py:470)
LoadDescriptions ==
    /\ ret' = Ret("_load_descriptions_cache", _load_descriptions_cache(categories_file))
    /\ UNCHANGED <<modvars, seffvars, savevars, now, projects_file, slurm_file, txtvars>>

\* no merge has run
NoMerge == [cache |-> EmptyDict, count |-> 0, once |-> MissingFile]

\* number of times the merge step is applied in a row
MaxMerges == 3

\* as MergeDescriptions, but a missing file is first created without
\* descriptions
MergeDescriptions_creating(cache) ==
    /\ merged.count < MaxMerges
    /\ merged.count > 0 => cache = merged.cache
    /\ categories_file' =
          IF categories_file.kind = "missing"
          THEN CatFile("dict", EmptyDict, "absent", EmptyDict)
          ELSE _save_descriptions_cache(categories_file, cache)
    /\ merged' = [merged EXCEPT !.cache = cache,
                                !.count = merged.count + 1,
                                !.once = IF merged.count = 0 THEN categories_file'
                                         ELSE merged.once]
    /\ UNCHANGED <<streaming_in_progress, modules_cache, modules_cache_timestamp,
                   spider_text, scan, preload, resp, now, acquired_at,
                   started_in_window, seffvars, projects_file, slurm_file, ret,
                   txtvars, saving, written>>

\* the description-merge step, _save_descriptions_cache(cache), run from its
\* first line to its last; a step that follows another repeats its map
MergeDescriptions(cache) ==
    /\ merged.count < MaxMerges
    /\ merged.count > 0 => cache = merged.cache
    /\ categories_file' = _save_descriptions_cache(categories_file, cache)
    /\ merged' = [merged EXCEPT !.cache = cache,
                                !.count = merged.count + 1,
                                !.once = IF merged.count = 0 THEN categories_file'
                                         ELSE merged.once]
    /\ UNCHANGED <<streaming_in_progress, modules_cache, modules_cache_timestamp,
                   spider_text, scan, preload, resp, now, acquired_at,
                   started_in_window, seffvars, projects_file, slurm_file, ret,
                   txtvars, saving, written>>

InitSaveIdle ==
    /\ saving = [key \in CacheKeys |-> IdleSave]
    /\ written = [key \in CacheKeys |-> FALSE]
    /\ merged = NoMerge

InitFilesIdle ==
    /\ projects_file = MissingProjectsFile
    /\ slurm_file = SlurmFile(FALSE, 0, "blank")
    /\ ret = NoRet
    /\ InitTxtIdle
    /\ InitSaveIdle

(***************************************************************************)
(* Specification of the module catalog                                    *)
(***************************************************************************)
InitSeffIdle ==
    /\ seff_file = MissingSeffFile
    /\ call = [c \in Calls |-> IdleCall]
    /\ worker = [pc |-> "idle"]
    /\ recorded = {}

\* every way a 'module -t spider' call can end
ListingResults == ProcResults(spider_text)
\* every way a 'module --redirect spider <name>' call can end
DetailResults == UNION {ProcResults(out) : out \in DetailOutputs}

Families == SeqToSet(FamilyOrder)

\* the steps of the SSE generator in slot s
StreamStep(s) ==
    \/ \E kind \in ScanKinds : OpenStream(s, kind)
    \/ \E p \in ListingResults : ListDone(s, p)
    \/ EmitModules(s)
    \/ \E f \in Families, p \in DetailResults : Completion(s, f, p)
    \/ FinishPool(s)
    \/ Return(s)
    \/ Close(s)

\* the guard under concurrent requests: a cluster with one module family
GuardTexts == { <<LineRcDir, LineGCC11, LineGCC9>> }

Init ==
    /\ InitModules(GuardTexts)
    /\ categories_file = MissingFile
    /\ InitSeffIdle
    /\ InitFilesIdle
    /\ now = 0

Next ==
    \/ refresh_start
    \/ load_descriptions
    \/ refresh_status
    \/ modules
    \/ modules_list
    \/ \E s \in Streams : StreamStep(s)
    \/ \E p \in ListingResults : PreloadFinish(p)

Spec == Init /\ [][Next]_vars

(***************************************************************************)
(* Specifications with fairness, a clock, and a single detailed scan       *)
(***************************************************************************)
\* the server keeps iterating a live generator and the startup thread runs;
\* requests and disconnects of clients are not fair
FairSpec ==
    /\ Spec
    /\ \A s \in Streams :
          /\ WF_vars(\E p \in ListingResults : ListDone(s, p))
          /\ WF_vars(EmitModules(s))
          /\ WF_vars(\E f \in Families, p \in DetailResults : Completion(s, f, p))
          /\ WF_vars(FinishPool(s))
          /\ WF_vars(Return(s))
    /\ WF_vars(\E p \in ListingResults : PreloadFinish(p))

\* the guard with a clock: one SSE generator
NextLock ==
    \/ refresh_start
    \/ load_descriptions
    \/ refresh_status
    \/ Tick
    \/ StreamStep(1)
    \/ \E p \in ListingResults : PreloadFinish(p)

SpecLock == Init /\ [][NextLock]_vars

\* one SSE generator on every modelled cluster
InitScan ==
    /\ InitModules(ListingOutputs)
    /\ InitSeffIdle
    /\ InitFilesIdle
    /\ now = 0

NextScan == StreamStep(1)

SpecScan == InitScan /\ [][NextScan]_vars

\* the efficiency cache under concurrent requests and the preload worker;
\* the runs of seff succeed or exit with a nonzero code
RacingOutcomes == {"ok", "nonzero"}

InitSeff ==
    /\ InitModules(GuardTexts)
    /\ categories_file = MissingFile
    /\ InitSeffIdle
    /\ InitFilesIdle
    /\ now = 0

NextSeff ==
    \/ \E c \in Calls, job_id \in Jobs, force_refresh \in BOOLEAN :
          CallBegin(c, job_id, force_refresh)
    \/ \E c \in Calls, outcome \in RacingOutcomes : CallRun(c, outcome)
    \/ \E c \in Calls : CallLoad(c)
    \/ \E c \in Calls : CallSave(c)
    \/ \E job_list \in SacctJobs : WorkerStart(job_list)
    \/ WorkerGiveUp
    \/ \E outcome \in RacingOutcomes : WorkerJob(outcome)
    \/ WorkerFinal

SpecSeff == InitSeff /\ [][NextSeff]_vars

(***************************************************************************)
(* Single-flight guard                                                     *)
(***************************************************************************)
StartOps == {"refresh_start", "load_descriptions"}

\* C1: while the flag is set, every refresh_start or load_descriptions call
\* answers 409 and leaves the flag set, and at most one call has answered
\* 'started' since the flag was last cleared.
C1_SingleFlight ==
    /\ [](started_in_window <= 1)
    /\ [][(streaming_in_progress /\ resp' # resp /\ resp'.op \in StartOps)
            => (resp'.code = 409 /\ streaming_in_progress'
                /\ started_in_window' = started_in_window)]_vars

C1_Witness ==
    /\ streaming_in_progress
    /\ started_in_window = 1
    /\ resp.op = "load_descriptions"
    /\ resp.code = 409

\* the module-catalog scans that are executing
ExecutingScans ==
    Cardinality({s \in Streams : Running(scan[s])})
    + (IF preload = "running" THEN 1 ELSE 0)

\* C2: at most one module-catalog scan (stream generator or startup preload)
\* executes at a time, and only while the flag is held.
C2_Serialized ==
    /\ ExecutingScans <= 1
    /\ ExecutingScans > 0 => streaming_in_progress

\* C3: a set flag is eventually cleared.
C3_Released == streaming_in_progress ~> ~streaming_in_progress

\* the ceiling after which a held guard counts as abandoned (5 minutes)
LockCeiling == 5 * 60

\* C4: when the flag has been held for longer than the ceiling, refresh_status
\* reports it as not held and refresh_start proceeds.
C4_Abandoned ==
    [][(HeldFor > LockCeiling /\ resp' # resp)
         => /\ resp'.op = "refresh_status" => ~resp'.in_progress
            /\ resp'.op = "refresh_start" => resp'.code = 200]_vars

\* C5: a /refresh-stream scan whose listing has succeeded goes on to its
\* complete event (where the cache is written), whatever the client does.
C5_NoCancel ==
    [][\A s \in Streams :
          (scan[s].kind = "refresh" /\ scan[s].pc \in {"listed", "fetching"})
             => scan'[s].pc \in {"listed", "fetching", "last_yield"}]_vars

(***************************************************************************)
(* Streaming enumerator                                                    *)
(***************************************************************************)
HasEvent(events, type) == \E i \in 1..Len(events) : events[i].type = type

\* every module_update follows a module event of the same name, and no module
\* event follows the complete event
Ordered(events) ==
    /\ \A i \in 1..Len(events) :
          events[i].type = "module_update"
             => \E j \in 1..(i - 1) : /\ events[j].type = "module"
                                      /\ events[j].name = events[i].name
    /\ \A i \in 1..Len(events) :
          events[i].type = "complete"
             => \A j \in (i + 1)..Len(events) : events[j].type # "module"

\* C6: in the events of a completed enumerator scan, every module_update is
\* keyed by the name of an earlier module event and no module event follows
\* the complete event.
C6_Ordering ==
    \A s \in Streams :
        (scan[s].kind = "refresh" /\ HasEvent(scan[s].events, "complete"))
            => Ordered(scan[s].events)

C6_Witness ==
    \E s \in Streams :
        /\ scan[s].kind = "refresh"
        /\ HasEvent(scan[s].events, "complete")
        /\ Cardinality({i \in 1..Len(scan[s].events) :
                           scan[s].events[i].type = "module_update"}) >= 2

\* C7: the client of a completed /refresh-stream has received a module_update
\* for every family before the complete event.
C7_UpdatesDelivered ==
    \A s \in Streams :
        (scan[s].kind = "refresh" /\ scan[s].pc = "last_yield")
            => \A f \in DOMAIN scan[s].modules_dict :
                  \E i \in 1..Len(Sent(scan[s])) :
                      /\ Sent(scan[s])[i].type = "module_update"
                      /\ Sent(scan[s])[i].name = scan[s].module_name_map[f]

\* C8: once the listing has succeeded the enumerator yields no error event,
\* and it returns only after its complete event, whichever detail fetches
\* fail.
C8_WorkersNotFatal ==
    /\ [](\A s \in Streams :
            (scan[s].kind = "refresh" /\ scan[s].pc \in {"listed", "fetching", "last_yield"})
                => ~HasEvent(scan[s].events, "error"))
    /\ [][\A s \in Streams :
            (scan[s].kind = "refresh" /\ scan[s].pc \in {"listed", "fetching", "last_yield"}
             /\ scan'[s].pc = "done")
                => scan[s].events[Len(scan[s].events)].type = "complete"]_vars

\* a completed scan in which the fetch of some family brought no description
C8_Witness ==
    \E s \in Streams :
        /\ scan[s].kind = "refresh"
        /\ scan[s].pc = "last_yield"
        /\ \E f \in DOMAIN scan[s].modules_dict :
              /\ f \notin DOMAIN scan[s].descriptions_cache
              /\ f \notin DOMAIN scan[s].new_descriptions

(***************************************************************************)
(* Per-job efficiency cache                                                *)
(***************************************************************************)
\* C9: once a result for job j has been stored, no later call without
\* force_refresh invokes seff for j, and the stored entry of j is changed or
\* removed only by the save of a call for j with force_refresh.
C9_Permanent ==
    /\ [](\A c \in Calls :
            call[c].pc = "run" => (call[c].force_refresh \/ ~call[c].after_record))
    /\ [][\A j \in DOMAIN seff_file.dict :
            (j \notin DOMAIN seff_file'.dict \/ seff_file'.dict[j] # seff_file.dict[j])
               => \E c \in Calls : /\ call[c].pc = "save"
                                   /\ call[c].job_id = j
                                   /\ call[c].force_refresh
                                   /\ call'[c].pc = "idle"]_vars

\* C10: an entry that is in the cache file stays in the cache file.
C10_NoLostUpdate ==
    [][\A j \in DOMAIN seff_file.dict : j \in DOMAIN seff_file'.dict]_vars

\* one request at a time inside _call_seff, with every way a run of seff can
\* end
NextCall ==
    \/ \E job_id \in Jobs, force_refresh \in BOOLEAN : CallBegin(1, job_id, force_refresh)
    \/ \E outcome \in SeffOutcomes : CallRun(1, outcome)
    \/ CallLoad(1)
    \/ CallSave(1)

SpecCall == InitSeff /\ [][NextCall]_vars

\* C11: a run of seff that fails stores no entry for its job: no entry of the
\* cache file holds an error, and the save that ends a failed call leaves the
\* job out of the file, so that the next request runs seff again.
C11_FailuresNotStored ==
    /\ [](\A j \in DOMAIN seff_file.dict : IsNone(seff_file.dict[j].error))
    /\ [][\A c \in Calls :
            (/\ call[c].pc = "save"
             /\ call'[c].pc = "idle"
             /\ ~IsNone(call[c].cache[call[c].job_id].error)
             /\ call[c].job_id \notin DOMAIN seff_file.dict)
                => call[c].job_id \notin DOMAIN seff_file'.dict]_vars

(***************************************************************************)
(* Failure policy of the startup preload                                  *)
(***************************************************************************)
\* C12: a preload that fails leaves the module cache and its timestamp as
\* they were.
C12_PreloadFailureFrame ==
    [][(preload = "running" /\ preload' = "failed")
         => UNCHANGED <<modules_cache, modules_cache_timestamp>>]_vars

\* the preload failed after a refresh stream had filled the cache
C12_Witness ==
    /\ preload = "failed"
    /\ ~IsNone(modules_cache)
    /\ ~IsNone(modules_cache_timestamp)

(***************************************************************************)
(* Staleness of the age-checked cache files                                *)
(***************************************************************************)
\* the times of the reads and of the writes the model draws from: ages on
\* both sides of either limit, and a write that lies in the future
ReadTimes == {0, 600, 601, 3600, 3601}
WriteTimes == {0, 1}

ProjectsFiles ==
    { ProjectsFile(kind, FALSE, 0, FALSE, <<>>, <<>>) : kind \in {"missing", "invalid", "other"} }
    \cup { ProjectsFile("dict", shape[1], t0, shape[2], <<"d">>, <<"p">>) :
             shape \in {<<FALSE, TRUE>>, <<TRUE, FALSE>>, <<TRUE, TRUE>>},
             t0 \in WriteTimes }

SlurmFiles ==
    { SlurmFile(FALSE, 0, "blank") }
    \cup { SlurmFile(TRUE, t0, content) : t0 \in WriteTimes, content \in SlurmContents }

\* the cache files as they lie on disk when a read arrives at some time
InitRead ==
    /\ InitModules(GuardTexts)
    /\ categories_file = MissingFile
    /\ InitSeffIdle
    /\ now \in ReadTimes
    /\ projects_file \in ProjectsFiles
    /\ slurm_file \in SlurmFiles
    /\ ret = NoRet
    /\ InitTxtIdle
    /\ InitSaveIdle

NextRead == ReadProjects \/ ReadSlurmLoad

SpecRead == InitRead /\ [][NextRead]_vars

PastAges == {100, 400, 700}

InitialTxtFiles ==
    { MissingTxtFile } \cup { TxtFile(TRUE, 0 - age, "report") : age \in PastAges }

SinfoResults == UNION { ProcResults(out) : out \in SinfoOutputs }

InitStartup ==
    /\ InitModules(GuardTexts)
    /\ categories_file = MissingFile
    /\ InitSeffIdle
    /\ now = 0
    /\ projects_file = MissingProjectsFile
    /\ slurm_file = SlurmFile(FALSE, 0, "blank")
    /\ ret = NoRet
    /\ partitions_file \in InitialTxtFiles
    /\ quota_file \in InitialTxtFiles
    /\ modules_file = MissingTxtFile
    /\ bg = [partitions |-> "start", quota |-> "start", modules |-> "start"]
    /\ invoked = {}
    /\ InitSaveIdle

NextStartup ==
    \/ \E script_exists \in BOOLEAN : PartitionsDecide(script_exists)
    \/ \E outcome \in ScriptOutcomes : PartitionsScriptEnd(outcome)
    \/ \E script_exists \in BOOLEAN : QuotaDecide(script_exists)
    \/ \E outcome \in ScriptOutcomes : QuotaScriptEnd(outcome)
    \/ index
    \/ \E p \in SinfoResults : jobs(p)
    \/ Tick

SpecStartup == InitStartup /\ [][NextStartup]_vars

\* C14: update_partitions_background returns without running the script
\* exactly when logs/partitions.txt exists and is younger than 600 seconds.
C14_PartitionsTTL ==
    [][(bg.partitions = "start" /\ bg'.partitions # "start")
         => (bg'.partitions = "skipped"
               <=> (partitions_file.exists /\ now - partitions_file.mtime < 600))]_vars

\* C15: a home-page read of a disk quota file older than 300 seconds does not
\* serve the old data as valid, and a background run of the quota script is
\* pending or under way after it.
C15_StaleQuotaRefresh ==
    [][(index /\ quota_file.exists /\ now - quota_file.mtime > 300)
         => (IsNone(ret'.value) /\ bg'.quota \in {"start", "running"})]_vars

\* C16: a request for partition data that arrives while logs/partitions.txt
\* is younger than 600 seconds is answered without running sinfo.
C16_CacheFirst ==
    [][\A p \in SinfoResults :
          (jobs(p) /\ partitions_file.exists /\ now - partitions_file.mtime < 600)
             => invoked' = {}]_vars

(***************************************************************************)
(* Reads of the module list during a refresh                               *)
(***************************************************************************)
\* C17: a read of the module list answered while the in-progress flag is set
\* tells the caller that the data is loading: /modules/list answers with
\* 'loading' true, the modules page with an empty-cache notice.
C17_LoadingSignal ==
    /\ [][(streaming_in_progress /\ modules_list) => resp'.loading]_vars
    /\ [][(streaming_in_progress /\ modules) => resp'.cache_empty]_vars

(***************************************************************************)
(* Readers and writers of the JSON cache files                             *)
(***************************************************************************)
NextFiles ==
    \/ \E key \in CacheKeys : SaveBegin(key)
    \/ \E key \in CacheKeys : SaveOpen(key)
    \/ \E key \in CacheKeys : SaveDump(key)
    \/ LoadSeff
    \/ ReadProjects
    \/ LoadDescriptions

InitFiles(seffs, projs, cats) ==
    /\ spider_text \in GuardTexts
    /\ streaming_in_progress = FALSE
    /\ modules_cache = None
    /\ modules_cache_timestamp = None
    /\ scan = [s \in Streams |-> IdleScan]
    /\ preload = "running"
    /\ resp = Response("none", 0, FALSE)
    /\ acquired_at = 0
    /\ started_in_window = 0
    /\ categories_file \in cats
    /\ seff_file \in seffs
    /\ call = [c \in Calls |-> IdleCall]
    /\ worker = [pc |-> "idle"]
    /\ recorded = {}
    /\ now = 0
    /\ projects_file \in projs
    /\ slurm_file = SlurmFile(FALSE, 0, "blank")
    /\ ret = NoRet
    /\ InitTxtIdle
    /\ InitSaveIdle

\* the files are missing or hold what an earlier save wrote
InitWrite ==
    InitFiles({ MissingSeffFile,
                SeffFile("dict", ("102" :> SeffEntry(Result(Some("report"), None), 0))) },
              { MissingProjectsFile,
                ProjectsFile("dict", TRUE, 0, TRUE, <<"d">>, <<"q">>) },
              InitialCatFiles)

SpecWrite == InitWrite /\ [][NextFiles]_vars

\* C18: a read of a cache file never finds it empty or cut short: whenever
\* _load_seff_cache, _load_projects_cache or _load_descriptions_cache reads
\* its file, the file holds all of an old or all of a new content.
C18_AtomicWrites ==
    /\ [][LoadSeff => seff_file.kind # "invalid"]_vars
    /\ [][ReadProjects => projects_file.kind # "invalid"]_vars
    /\ [][LoadDescriptions => categories_file.kind # "invalid"]_vars

\* every cache file holds text that is not JSON
InitCorrupt ==
    InitFiles({ TruncatedSeffFile }, { TruncatedProjectsFile }, { TruncatedCatFile })

SpecCorrupt == InitCorrupt /\ [][NextFiles]_vars

\* C19: a read of a cache file that is not JSON returns the empty value, and
\* once a save of a payload has finished, a read returns that payload.
C19_CorruptResilience ==
    /\ [][(LoadSeff /\ seff_file.kind = "invalid") => ret'.value = EmptyDict]_vars
    /\ [][(ReadProjects /\ projects_file.kind = "invalid") => IsNone(ret'.value)]_vars
    /\ [][(LoadDescriptions /\ categories_file.kind = "invalid")
            => ret'.value = EmptyDict]_vars
    /\ [][(LoadSeff /\ written.seff /\ saving.seff.pc = "idle")
            => ret'.value = SeffPayload]_vars
    /\ [][(ReadProjects /\ written.projects /\ saving.projects.pc = "idle")
            => (~IsNone(ret'.value) /\ Val(ret'.value).projects = ProjectsPayload)]_vars
    /\ [][(LoadDescriptions /\ written.descriptions /\ saving.descriptions.pc = "idle")
            => ret'.value = DescriptionsPayload]_vars

\* the description file did not parse, a save has finished, and a read returns
\* the saved descriptions
C19_Witness ==
    /\ ret.op = "_load_descriptions_cache"
    /\ written.descriptions
    /\ saving.descriptions.pc = "idle"
    /\ ret.value = DescriptionsPayload

(***************************************************************************)
(* The (output, error) pairs of the gateways                               *)
(***************************************************************************)
\* the whole of _call_seff with use_cache=True, as one call: the pair it
\* returns
_call_seff(file, job_id, force_refresh, outcome) ==
    LET cache == _load_seff_cache(file)
    IN  IF ~force_refresh /\ job_id \in DOMAIN cache
        THEN Result(cache[job_id].output, cache[job_id].error)
        ELSE SeffResult(outcome)

\* ... and the cache file it leaves
AfterCallSeff(file, job_id, force_refresh, outcome, t) ==
    LET cache == _load_seff_cache(file)
    IN  IF ~force_refresh /\ job_id \in DOMAIN cache
        THEN file
        ELSE _save_seff_cache(file,
                 Update(_load_seff_cache(file),
                        (job_id :> SeffEntry(SeffResult(outcome), t))))

CallModule(p) ==
    /\ ret' = Ret("_call_module_command", _call_module_command(p))
    /\ UNCHANGED <<modvars, seffvars, savevars, now, projects_file, slurm_file, txtvars>>

CallSinfo(p) ==
    /\ ret' = Ret("_call_sinfo", _call_sinfo(p))
    /\ UNCHANGED <<modvars, seffvars, savevars, now, projects_file, slurm_file, txtvars>>

CallSeff(job_id, force_refresh, outcome) ==
    /\ ret' = Ret("_call_seff", _call_seff(seff_file, job_id, force_refresh, outcome))
    /\ seff_file' = AfterCallSeff(seff_file, job_id, force_refresh, outcome, now)
    /\ UNCHANGED <<modvars, call, worker, recorded, savevars, now, projects_file,
                   slurm_file, txtvars>>

\* entries of a cache file that is valid JSON: the two shapes _call_seff
\* writes, an object without the two keys, and an object with both set
CacheEntries ==
    { SeffEntry(Result(Some("report"), None), 0),
      SeffEntry(Result(None, Some("seff failed")), 0),
      SeffEntry(Result(None, None), 0),
      SeffEntry(Result(Some("report"), Some("seff failed")), 0) }

GatewaySeffFiles ==
    { MissingSeffFile, SeffFile("invalid", EmptyDict), SeffFile("other", EmptyDict) }
    \cup { SeffFile("dict", ("101" :> entry)) : entry \in CacheEntries }

\* what one run of git-status-checker can be: the binary is found or not,
\* some configured directory exists or not, the call raises or not, and
\* otherwise it exits with a return code and a stdout that is blank, a JSON
\* report or text that is not JSON
GitRun(found, dirs, exc, rc, stdout) ==
    [found |-> found, dirs |-> dirs, exc |-> exc, rc |-> rc, stdout |-> stdout]

GitRuns ==
    { GitRun(FALSE, TRUE, "none", 0, "blank"),
      GitRun(TRUE, FALSE, "none", 0, "blank"),
      GitRun(TRUE, TRUE, "timeout", 0, "blank"),
      GitRun(TRUE, TRUE, "oserror", 0, "blank") }
    \cup { GitRun(TRUE, TRUE, "none", rc, stdout) :
             rc \in {0, 1, 2, 127}, stdout \in {"blank", "json", "garbage"} }

\* json.loads of a report
GitReport == [repositories |-> <<"repo">>, total |-> 1, outdated |-> 1]
\* {"repositories": [], "total": 0, "outdated": 0}
EmptyGitReport == [repositories |-> <<>>, total |-> 0, outdated |-> 0]

\* returns (parsed_json_data, error_message)
_call_git_status_checker(p) ==
    IF ~p.found THEN Result(None, Some("git-status-checker not found"))
    ELSE IF ~p.dirs THEN Result(None, Some("No valid project directories found in configuration"))
    ELSE IF p.exc = "timeout" THEN Result(None, Some("git-status-checker timed out"))
    ELSE IF p.exc = "oserror" THEN Result(None, Some("Error calling git-status-checker"))
    ELSE IF p.rc = 127 THEN Result(Some(EmptyGitReport), None)
    ELSE IF p.stdout = "blank" THEN Result(Some(EmptyGitReport), None)
    ELSE IF p.stdout = "json" THEN Result(Some(GitReport), None)
    ELSE Result(None, Some("git-status-checker JSON parse error"))

CallGitStatusChecker(p) ==
    /\ ret' = Ret("_call_git_status_checker", _call_git_status_checker(p))
    /\ UNCHANGED <<modvars, seffvars, savevars, now, projects_file, slurm_file, txtvars>>

InitGateway ==
    InitFiles(GatewaySeffFiles, { MissingProjectsFile }, { MissingFile })

NextGateway ==
    \/ \E p \in ListingResults \cup DetailResults : CallModule(p)
    \/ \E p \in SinfoResults : CallSinfo(p)
    \/ \E p \in GitRuns : CallGitStatusChecker(p)
    \/ \E job_id \in Jobs, force_refresh \in BOOLEAN, outcome \in SeffOutcomes :
          CallSeff(job_id, force_refresh, outcome)

SpecGateway == InitGateway /\ [][NextGateway]_vars

\* C20: every pair returned by _call_module_command, _call_sinfo and
\* _call_seff has exactly one null component.
C20_ExactlyOneNull ==
    ret.op \in {"_call_module_command", "_call_sinfo", "_call_seff"}
        => (IsNone(ret.value.output) # IsNone(ret.value.error))

\* C21: a gateway call whose command exits with a nonzero code returns an
\* error and no data: _call_module_command, _call_sinfo and
\* _call_git_status_checker return (None, error) whenever the return code is
\* not 0.
C21_NonzeroIsFailure ==
    /\ [][\A p \in ListingResults \cup DetailResults :
            (ret'.op = "_call_module_command" /\ CallModule(p) /\ p.bash /\ p.exc = "none" /\ p.rc # 0)
               => (IsNone(ret'.value.output) /\ ~IsNone(ret'.value.error))]_vars
    /\ [][\A p \in SinfoResults :
            (ret'.op = "_call_sinfo" /\ CallSinfo(p) /\ p.bash /\ p.exc = "none" /\ p.rc # 0)
               => (IsNone(ret'.value.output) /\ ~IsNone(ret'.value.error))]_vars
    /\ [][\A p \in GitRuns :
            (ret'.op = "_call_git_status_checker" /\ CallGitStatusChecker(p) /\ p.found /\ p.dirs /\ p.exc = "none" /\ p.rc # 0)
               => (IsNone(ret'.value.output) /\ ~IsNone(ret'.value.error))]_vars

(***************************************************************************)
(* The description merge as a function of the file and the new map        *)
(***************************************************************************)
\* the description maps the model draws from
DescriptionTexts == {<<"old">>, <<"text">>}

DescriptionMaps ==
    { EmptyDict }
    \cup { (<<"GCC">> :> d) : d \in DescriptionTexts }
    \cup { (<<"Zlib">> :> d) : d \in DescriptionTexts }
    \cup { (<<"GCC">> :> d) @@ (<<"Zlib">> :> e) : d \in DescriptionTexts, e \in DescriptionTexts }

\* the category maps (the keys of the file other than 'descriptions')
CategoryMaps == { EmptyDict, ("Toolchains" :> <<"GCC">>) }

\* every content the file can have when a merge starts
MergeFiles ==
    { MissingFile, TruncatedCatFile, CatFile("other", EmptyDict, "absent", EmptyDict) }
    \cup { CatFile("dict", cats, dtype, EmptyDict) :
             cats \in CategoryMaps, dtype \in {"absent", "other"} }
    \cup { CatFile("dict", cats, "dict", desc) :
             cats \in CategoryMaps, desc \in DescriptionMaps }

InitMerge == InitFiles({ MissingSeffFile }, { MissingProjectsFile }, MergeFiles)

NextMerge == \E cache \in DescriptionMaps : MergeDescriptions(cache)

SpecMerge == InitMerge /\ [][NextMerge]_vars

\* C22: the description file after two (or more) merges of the same map is
\* the file after the first of them, whatever the file held before.
C22_MergeIdempotent == merged.count >= 1 => categories_file = merged.once

\* the merge has run twice on a file that held other descriptions, and has
\* changed it
C22_Witness ==
    /\ merged.count = 2
    /\ categories_file = merged.once
    /\ <<"GCC">> \in DOMAIN categories_file.desc
    /\ <<"Zlib">> \in DOMAIN categories_file.desc
    /\ <<"GCC">> \notin DOMAIN merged.cache
    /\ <<"Zlib">> \in DOMAIN merged.cache
    /\ categories_file.cats # EmptyDict

(***************************************************************************)
(* The description merge at the end of overlapping scans                   *)
(***************************************************************************)
\* a cluster with two module families
RaceTexts == { <<LineRcDir, LineSlicer, LineZlib>> }

\* 'module --redirect spider <name>' prints a description, which the
\* administrators of the cluster may have edited since the last call, or
\* times out
RaceDetailResults ==
    { ProcResult(TRUE, "none", 0, <<"Description:", "text">>, <<>>),
      ProcResult(TRUE, "none", 0, <<"Description:", "edited text">>, <<>>),
      ProcResult(TRUE, "timeout", 0, <<>>, <<>>) }

InitRace ==
    /\ InitModules(RaceTexts)
    /\ InitSeffIdle
    /\ InitFilesIdle
    /\ now = 0

\* /descriptions-stream generators that overlap (nothing makes a generator
\* wait for the flag) and run to their end
NextRace ==
    \E s \in Streams :
        \/ OpenStream(s, "descriptions")
        \/ ListDone(s, ProcResult(TRUE, "none", 0, spider_text, <<>>))
        \/ \E f \in Families, p \in RaceDetailResults : Completion(s, f, p)
        \/ FinishPool(s)
        \/ Return(s)

SpecRace == InitRace /\ [][NextRace]_vars

\* the families whose detail fetch a scan has run or will run
FetchedFamilies(sc) == DOMAIN sc.modules_dict \ DOMAIN sc.descriptions_cache

\* C23: the merge at the end of a scan keeps, with its value, every
\* description of the file whose family the scan did not fetch, and keeps the
\* category map of the file.
C23_AdditiveMerge ==
    [][\A s \in Streams :
          (scan[s].pc = "fetching" /\ scan'[s].pc = "last_yield")
             => /\ \A f \in DOMAIN _load_descriptions_cache(categories_file)
                              \ FetchedFamilies(scan[s]) :
                      /\ f \in DOMAIN categories_file'.desc
                      /\ categories_file'.desc[f] = categories_file.desc[f]
                /\ categories_file.kind = "dict"
                      => categories_file'.cats = categories_file.cats]_vars

(***************************************************************************)
(* The four threads started at import of app.py                            *)
(***************************************************************************)
\* the files a previous run left behind: missing, fresh, or stale
BootQuotaFiles == { MissingTxtFile, TxtFile(TRUE, 0 - 100, "report") }
BootPartitionsFiles ==
    { MissingTxtFile, TxtFile(TRUE, 0 - 100, "report"), TxtFile(TRUE, 0 - 400, "report") }
BootModulesFiles ==
    { MissingTxtFile, TxtFile(TRUE, 0 - 3300, "report"), TxtFile(TRUE, 0 - 3700, "report") }

InitBoot ==
    /\ InitModules(GuardTexts)
    /\ categories_file = MissingFile
    /\ InitSeffIdle
    /\ now = 0
    /\ projects_file = MissingProjectsFile
    /\ slurm_file = SlurmFile(FALSE, 0, "blank")
    /\ ret = NoRet
    /\ partitions_file \in BootPartitionsFiles
    /\ quota_file \in BootQuotaFiles
    /\ modules_file \in BootModulesFiles
    /\ bg = [partitions |-> "start", quota |-> "start", modules |-> "start"]
    /\ invoked = {}
    /\ InitSaveIdle

\* the four threads, the clock, and the home page as the request path
NextBoot ==
    \/ \E script_exists \in BOOLEAN : ModulesDecide(script_exists)
    \/ \E outcome \in ScriptOutcomes : ModulesScriptEnd(outcome)
    \/ \E script_exists \in BOOLEAN : PartitionsDecide(script_exists)
    \/ \E outcome \in ScriptOutcomes : PartitionsScriptEnd(outcome)
    \/ \E script_exists \in BOOLEAN : QuotaDecide(script_exists)
    \/ \E outcome \in ScriptOutcomes : QuotaScriptEnd(outcome)
    \/ \E p \in ListingResults : PreloadFinish(p)
    \/ index
    \/ Tick

SpecBoot == InitBoot /\ [][NextBoot]_vars

Sources == {"modules", "partitions", "quota"}

\* C24: each startup refresh runs once and off the request path: a thread
\* that has passed its start never comes back to it, a script runs only
\* straight from the start of its thread, the preload never restarts, and the
\* home page moves no thread.  The quota thread never skips its script for a
\* fresh file; the modules and partitions threads run theirs only when the
\* file is missing or stale, that is older than its time-to-live (3600
\* seconds for the module list, 600 seconds for the partition list).
C24_StartupRefresh ==
    /\ [][\A k \in Sources :
            /\ bg[k] # "start" => bg'[k] # "start"
            /\ (bg'[k] = "running" /\ bg[k] # "running") => bg[k] = "start"]_vars
    /\ [][preload # "running" => preload' = preload]_vars
    /\ [][index => UNCHANGED <<bg, preload, partitions_file, quota_file, modules_file>>]_vars
    /\ [][\A script_exists \in BOOLEAN :
            QuotaDecide(script_exists)
               => bg'.quota = IF script_exists THEN "running" ELSE "noscript"]_vars
    /\ [][(bg.partitions = "start" /\ bg'.partitions = "running")
            => (~partitions_file.exists \/ now - partitions_file.mtime >= 600)]_vars
    /\ [][(bg.modules = "start" /\ bg'.modules = "running")
            => (~modules_file.exists \/ now - modules_file.mtime >= 3600)]_vars

(***************************************************************************)
(* _natural_sort_key, character by character.  A version string is the     *)
(* sequence of its characters.                                             *)
(***************************************************************************)
Digits == {"0", "1", "2", "3", "4", "5", "6", "7", "8", "9"}

DigitVal(c) ==
    CASE c = "0" -> 0 [] c = "1" -> 1 [] c = "2" -> 2 [] c = "3" -> 3
      [] c = "4" -> 4 [] c = "5" -> 5 [] c = "6" -> 6 [] c = "7" -> 7
      [] c = "8" -> 8 [] OTHER -> 9

\* ord(c) of the characters of the model
CodePoint(c) ==
    CASE c = "." -> 46
      [] c = "/" -> 47
      [] c \in Digits -> 48 + DigitVal(c)
      [] c = "A" -> 65
      [] OTHER -> 97

\* str.lower()
Lower(part) == [i \in 1..Len(part) |-> IF part[i] = "A" THEN "a" ELSE part[i]]

\* re.split(r'(\d+)', text): the runs of non-digits (odd positions, possibly
\* empty at either end) and the runs of digits between them (even positions)
re_split(text) ==
    LET F[i \in 0..Len(text)] ==
            IF i = 0 THEN << <<>> >>
            ELSE LET parts == F[i - 1]
                     n == Len(parts)
                     c == text[i]
                 IN  IF (c \in Digits) = (n % 2 = 0)
                     THEN [parts EXCEPT ![n] = Append(parts[n], c)]
                     ELSE Append(parts, <<c>>)
        parts == F[Len(text)]
    IN  IF Len(parts) % 2 = 0 THEN Append(parts, <<>>) ELSE parts

\* str.isdigit() on the characters of the model
IsDigitString(part) == Len(part) > 0 /\ \A i \in 1..Len(part) : part[i] \in Digits

\* int(text_part)
IntOf(part) ==
    LET F[i \in 0..Len(part)] ==
            IF i = 0 THEN 0 ELSE 10 * F[i - 1] + DigitVal(part[i])
    IN  F[Len(part)]

\* an element of a key: an int or a str
KeyInt(n) == [type |-> "int", n |-> n, s |-> <<>>]
KeyStr(t) == [type |-> "str", n |-> 0, s |-> t]

\* as convert, but a run of digits stays text
convert_text(text_part) == KeyStr(Lower(text_part))

\* convert of _natural_sort_key
convert(text_part) ==
    IF IsDigitString(text_part) THEN KeyInt(IntOf(text_part))
    ELSE KeyStr(Lower(text_part))

\* the key of a version string
NaturalSortKey(text) ==
    LET parts == re_split(text) IN [i \in 1..Len(parts) |-> convert(parts[i])]

\* Python's a < b on two str
StrLess(a, b) ==
    LET n == IF Len(a) < Len(b) THEN Len(a) ELSE Len(b)
        D == {i \in 1..n : a[i] # b[i]}
    IN  IF D = {} THEN Len(a) < Len(b)
        ELSE LET i == CHOOSE j \in D : \A k \in D : j <= k
             IN  CodePoint(a[i]) < CodePoint(b[i])

\* Python's a < b on two lists of int and str: "lt", "ge", or "TypeError" when
\* the first elements that differ are an int and a str
ListLess(a, b) ==
    LET n == IF Len(a) < Len(b) THEN Len(a) ELSE Len(b)
        D == {i \in 1..n : a[i] # b[i]}
    IN  IF D = {} THEN (IF Len(a) < Len(b) THEN "lt" ELSE "ge")
        ELSE LET i == CHOOSE j \in D : \A k \in D : j <= k
             IN  IF a[i].type # b[i].type THEN "TypeError"
                 ELSE IF a[i].type = "int"
                      THEN (IF a[i].n < b[i].n THEN "lt" ELSE "ge")
                      ELSE (IF StrLess(a[i].s, b[i].s) THEN "lt" ELSE "ge")

\* sorted(versions, key=_natural_sort_key): stable, and raising TypeError when
\* two of the keys cannot be compared
SortedNatural(versions) ==
    LET key(i) == NaturalSortKey(versions[i])
        n == Len(versions)
        raises == \E i, j \in 1..n : ListLess(key(i), key(j)) = "TypeError"
        \* the place of versions[i] in the result
        place(i) == 1 + Cardinality({j \in 1..n :
                         \/ ListLess(key(j), key(i)) = "lt"
                         \/ (j < i /\ ListLess(key(i), key(j)) # "lt")})
    IN  IF raises THEN Result(None, Some("TypeError"))
        ELSE Result(Some([k \in 1..n |-> versions[CHOOSE i \in 1..n : place(i) = k]]),
                    None)

\* the version lists of a family are sorted (modules.py:436)
SortVersionList(versions) ==
    /\ ret' = Ret("sorted", [input |-> versions, sorted |-> SortedNatural(versions)])
    /\ UNCHANGED <<modvars, seffvars, savevars, now, projects_file, slurm_file, txtvars>>

\* the characters of the version strings the model draws from, and their
\* greatest length
VersionChars == {"a", "A", "1", "9"}
MaxVersionLen == 3

VersionStrings ==
    UNION { [1..n -> VersionChars] : n \in 1..MaxVersionLen }

\* "Armadillo/9.2", "Armadillo/11.4.3", "Armadillo/2.0", with A for Armadillo
Armadillo92 == <<"A", "/", "9", ".", "2">>
Armadillo1143 == <<"A", "/", "1", "1", ".", "4", ".", "3">>
Armadillo20 == <<"A", "/", "2", ".", "0">>

VersionLists ==
    { <<x, y>> : x \in VersionStrings, y \in VersionStrings }
    \cup { <<Armadillo92, Armadillo1143, Armadillo20>> }

\* one list is sorted in a behaviour
NextSort == ret = NoRet /\ \E versions \in VersionLists : SortVersionList(versions)

SpecSort == Init /\ [][NextSort]_vars

\* x and y agree up to a point where each has a run of digits, and the number
\* of x's run is the smaller one
SmallerNumberFirst(x, y) ==
    \E i \in 1..Len(x) :
        /\ i <= Len(y)
        /\ SubSeq(x, 1, i - 1) = SubSeq(y, 1, i - 1)
        /\ i > 1 => x[i - 1] \notin Digits
        /\ x[i] \in Digits /\ y[i] \in Digits
        /\ LET run(t) == SubSeq(t, i, CHOOSE e \in i..Len(t) :
                              /\ \A k \in i..e : t[k] \in Digits
                              /\ e < Len(t) => t[e + 1] \notin Digits)
           IN  IntOf(run(x)) < IntOf(run(y))

StartsWithCuda(module_name) == module_name[1] \in {"cuda11.2", "Cuda", "CUDA"}

\* the first prefix, from the longest to the shortest, that is a key of the
\* map with or without a trailing slash: <<the prefix found, or None>>
PrefixMatch(module_name, categories_config) ==
    LET parts == module_name
        key(i) == IF SubSeq(parts, 1, i) \in DOMAIN categories_config
                  THEN Some(SubSeq(parts, 1, i))
                  ELSE IF Append(SubSeq(parts, 1, i), "") \in DOMAIN categories_config
                  THEN Some(Append(SubSeq(parts, 1, i), ""))
                  ELSE None
        M == {i \in 1..Len(parts) : ~IsNone(key(i))}
    IN  IF M = {} THEN None
        ELSE key(CHOOSE i \in M : \A j \in M : j <= i)

\* categories_config is what _load_categories returned: None or a dict
_categorize_module(module_name, categories_config) ==
    IF IsNone(categories_config) \/ DOMAIN Val(categories_config) = {} THEN "Misc"
    ELSE LET config == Val(categories_config)
         IN  IF module_name \in DOMAIN config THEN config[module_name]
             ELSE IF ~IsNone(PrefixMatch(module_name, config))
                  THEN config[Val(PrefixMatch(module_name, config))]
             ELSE IF Len(module_name) > 1 /\ module_name[1] = "rc"
                  THEN (IF <<"rc">> \in DOMAIN config THEN config[<<"rc">>]
                        ELSE "Research Computing modules")
             ELSE IF StartsWithCuda(module_name) /\ module_name # <<"CUDA">>
                  THEN (IF <<"cuda">> \in DOMAIN config THEN config[<<"cuda">>]
                        ELSE "Compilers/Toolchains")
             ELSE "Misc"

\* a scan assigns the category of one family (modules.py:454)
Categorize(module_name, categories_config) ==
    /\ ret' = Ret("_categorize_module",
                  [name |-> module_name, config |-> categories_config,
                   category |-> _categorize_module(module_name, categories_config)])
    /\ UNCHANGED <<modvars, seffvars, savevars, now, projects_file, slurm_file, txtvars>>

\* the names and the category maps the model draws from; in a map, the key k
\* has the category KeyCategory[k], one category per key
ModuleNames ==
    { <<"GCC">>, <<"Zlib">>, <<"rc", "Slicer">>, <<"rc", "Slicer", "tools">>,
      <<"cuda11.2", "toolkit">>, <<"Cuda">>, <<"CUDA">> }

KeyCategory ==
    (<<"GCC">> :> "Compilers") @@ (<<"rc">> :> "Research")
    @@ (<<"rc", "">> :> "Research (directory)") @@ (<<"rc", "Slicer">> :> "Imaging")
    @@ (<<"cuda">> :> "GPU") @@ (<<"CUDA">> :> "GPU (exact)")

CategoryConfigs ==
    { None } \cup { Some([k \in keys |-> KeyCategory[k]]) : keys \in SUBSET DOMAIN KeyCategory }

\* one name is categorized in a behaviour
NextCategorize ==
    /\ ret = NoRet
    /\ \E module_name \in ModuleNames, categories_config \in CategoryConfigs :
          Categorize(module_name, categories_config)

SpecCategorize == Init /\ [][NextCategorize]_vars

\* C26: the category of a name is that of its exact match in the map; failing
\* that, that of its longest path prefix in the map; failing that, the
\* restricted-namespace category for a name under rc/ and the toolchain
\* category for a name that begins with cuda in any case and is not CUDA; and
\* 'Misc' only when none of these applies.  A missing map counts as empty.
C26_CategoryPrecedence ==
    ret.op = "_categorize_module" =>
        LET name == ret.value.name
            config == IF IsNone(ret.value.config) THEN EmptyDict
                      ELSE Val(ret.value.config)
            category == ret.value.category
            matches(i) == {k \in {SubSeq(name, 1, i), Append(SubSeq(name, 1, i), "")} :
                              k \in DOMAIN config}
            lengths == {i \in 1..Len(name) : matches(i) # {}}
        IN  IF name \in DOMAIN config THEN category = config[name]
            ELSE IF lengths # {}
                 THEN LET longest == CHOOSE i \in lengths : \A j \in lengths : j <= i
                      IN  category \in {config[k] : k \in matches(longest)}
            ELSE IF Len(name) > 1 /\ name[1] = "rc"
                 THEN category = "Research Computing modules"
            ELSE IF StartsWithCuda(name) /\ name # <<"CUDA">>
                 THEN category \in {"Compilers/Toolchains"}
                          \cup {config[k] : k \in {<<"cuda">>} \cap DOMAIN config}
            ELSE category = "Misc"

(***************************************************************************)
(* Who clears the in-progress flag                                        *)
(***************************************************************************)
\* C27: a generator that started while the flag was not set (no start request
\* had succeeded for it) does not clear the flag when it ends, and
\* refresh_status answers in_progress = true while a generator that started
\* under the flag is running.
C27_OwnerClears ==
    /\ [][\A s \in Streams :
            (/\ Running(scan[s]) /\ ~Running(scan'[s])
             /\ ~scan[s].flag_at_start
             /\ streaming_in_progress)
                => streaming_in_progress']_vars
    /\ [][(/\ resp'.op = "refresh_status"
           /\ refresh_status
           /\ \E s \in Streams : Running(scan[s]) /\ scan[s].flag_at_start)
            => resp'.in_progress]_vars

(***************************************************************************)
(* _collect_projects_data: cache hit, incremental scan, full scan.  A      *)
(* project record carries, as history, the time of the scan that made it.  *)
(***************************************************************************)
\* the configured directories, in sorted order; each holds one repository
DirOrder == <<"a", "b">>

DirLists == { <<"a">>, <<"a", "b">> }

\* how _scan_directories can end: with a record per directory, with no
\* record, or with an exception
ScanOutcomes == {"found", "nothing", "raises"}

\* the records of a scan of dirs at time t
_scan_directories(dirs, outcome, t) ==
    IF outcome = "found" THEN [i \in 1..Len(dirs) |-> [path |-> dirs[i], scanned_at |-> t]]
    ELSE <<>>

\* {p['path']: p for p in cached}.update(new), as a list sorted by name
MergeProjects(cached_projects, new_projects_data) ==
    LET pick(d) == IF \E i \in 1..Len(new_projects_data) : new_projects_data[i].path = d
                   THEN SelectSeq(new_projects_data, LAMBDA p : p.path = d)
                   ELSE SelectSeq(cached_projects, LAMBDA p : p.path = d)
        last(q) == IF Len(q) = 0 THEN <<>> ELSE <<q[Len(q)]>>
        F[i \in 0..Len(DirOrder)] ==
            IF i = 0 THEN <<>> ELSE F[i - 1] \o last(pick(DirOrder[i]))
    IN  F[Len(DirOrder)]

\* what a call returns and what it leaves in the file: the list, the error,
\* and the records of the list that come from the cache without a rescan
Collected(projects, error, cached, file) ==
    [projects |-> projects, error |-> error, cached |-> cached, file |-> file]

_collect_projects_data(file, project_dirs, use_cache, outcome, t) ==
    LET normalized_dirs == project_dirs
        cached_data == IF use_cache THEN _load_projects_cache(file, t) ELSE None
        cached_dirs == IF IsNone(cached_data) THEN <<>> ELSE Val(cached_data).directories
        full == LET projects_data == _scan_directories(normalized_dirs, outcome, t)
                IN  IF outcome = "raises"
                    THEN Collected(<<>>, Some("Error collecting projects data"), {}, file)
                    ELSE Collected(projects_data, None, {},
                                   IF Len(projects_data) > 0
                                   THEN _save_projects_cache(projects_data, normalized_dirs, t)
                                   ELSE file)
    IN  IF IsNone(cached_data) THEN full
        ELSE IF ~(SeqToSet(cached_dirs) \subseteq SeqToSet(normalized_dirs)) THEN full
        ELSE LET new_dirs == SelectSeq(normalized_dirs,
                                       LAMBDA d : d \notin SeqToSet(cached_dirs))
                 cached_projects == Val(cached_data).projects
             IN  IF Len(new_dirs) = 0
                 THEN Collected(cached_projects, None, SeqToSet(cached_projects), file)
                 ELSE IF outcome = "raises"
                 THEN Collected(cached_projects, Some("Error scanning new directories"),
                                SeqToSet(cached_projects), file)
                 ELSE LET new_projects_data == _scan_directories(new_dirs, outcome, t)
                          merged_projects == MergeProjects(cached_projects, new_projects_data)
                      IN  Collected(merged_projects, None,
                                    SeqToSet(merged_projects) \ SeqToSet(new_projects_data),
                                    _save_projects_cache(merged_projects, normalized_dirs, t))

\* GET /projects/: the page collects the project data
CollectProjects(project_dirs, use_cache, outcome) ==
    /\ LET c == _collect_projects_data(projects_file, project_dirs, use_cache, outcome, now)
       IN  /\ ret' = Ret("_collect_projects_data",
                         [projects |-> c.projects, error |-> c.error,
                          cached |-> c.cached, at |-> now])
           /\ projects_file' = c.file
    /\ UNCHANGED <<modvars, seffvars, savevars, now, slurm_file, txtvars>>

\* half an hour passes
HalfHour == 1800
\* number of half hours the clock can advance
MaxHalfHours == 4

Elapse ==
    /\ now + HalfHour <= MaxHalfHours * HalfHour
    /\ now' = now + HalfHour
    /\ UNCHANGED <<modvars, seffvars, filevars>>

NextProjects ==
    \/ \E project_dirs \in DirLists, use_cache \in BOOLEAN, outcome \in ScanOutcomes :
          CollectProjects(project_dirs, use_cache, outcome)
    \/ Elapse

SpecProjects == Init /\ [][NextProjects]_vars

\* C28: every record a call returns from the cache, without rescanning it,
\* was made by a scan at most 3600 seconds before the call.
C28_CachedRecordsFresh ==
    ret.op = "_collect_projects_data"
        => \A p \in ret.value.cached : ret.value.at - p.scanned_at <= 3600

(***************************************************************************)
(* What a start request changes                                            *)
(***************************************************************************)
\* C29: a refresh_start answered 409 and a load_descriptions answered 409 or
\* 400 leave the module cache, its timestamp and the flag as they were; a
\* load_descriptions answered 'started' sets the flag and leaves the cache and
\* its timestamp as they were.
C29_RejectedStartFrame ==
    /\ [][(refresh_start /\ resp'.code = 409)
            => UNCHANGED <<modules_cache, modules_cache_timestamp,
                           streaming_in_progress>>]_vars
    /\ [][(load_descriptions /\ resp'.code \in {400, 409})
            => UNCHANGED <<modules_cache, modules_cache_timestamp,
                           streaming_in_progress>>]_vars
    /\ [][(load_descriptions /\ resp'.code = 200)
            => /\ streaming_in_progress'
               /\ UNCHANGED <<modules_cache, modules_cache_timestamp>>]_vars

\* load_descriptions has set the flag, the cache is still filled, and a
\* refresh_start has been answered 409
C29_Witness ==
    /\ resp.op = "refresh_start"
    /\ resp.code = 409
    /\ streaming_in_progress
    /\ ~IsNone(modules_cache)
    /\ ~IsNone(modules_cache_timestamp)

(***************************************************************************)
(* The module cache across a manual refresh                               *)
(***************************************************************************)
\* a manual refresh on every modelled cluster: start requests, one generator
\* at a time, and the startup preload
InitRefresh ==
    /\ InitModules(ListingOutputs)
    /\ InitSeffIdle
    /\ InitFilesIdle
    /\ now = 0

NextRefresh ==
    \/ refresh_start
    \/ StreamStep(1)
    \/ \E p \in ListingResults : PreloadFinish(p)

SpecRefresh == InitRefresh /\ [][NextRefresh]_vars

\* the names of the module events among events, in their order
ModuleEventNames(events) ==
    LET es == SelectSeq(events, LAMBDA e : e.type = "module")
    IN  [i \in 1..Len(es) |-> es[i].name]

\* the place of a name in the order of the lower-cased names
LowerRank(name) == CHOOSE i \in 1..Len(LowerOrder) : LowerOrder[i] = name

\* C30: a refresh_start answered 'started' leaves the cache and its timestamp
\* None; after that they change only at the complete event of a
\* /refresh-stream scan, where the cache becomes the modules of the module
\* events of that scan in the order of their lower-cased names, or at the end
\* of the startup preload; a scan that ends after an error event leaves the
\* cache and its timestamp as they were and the flag released.
C30_ClearThenRepopulate ==
    /\ [][(refresh_start /\ resp'.code = 200)
            => (IsNone(modules_cache') /\ IsNone(modules_cache_timestamp'))]_vars
    /\ [][(<<modules_cache, modules_cache_timestamp>>' # <<modules_cache, modules_cache_timestamp>>)
            => \/ refresh_start /\ resp'.code = 200
               \/ preload = "running" /\ preload' = "done"
               \/ \E s \in Streams :
                     /\ scan[s].kind = "refresh"
                     /\ ~HasEvent(scan[s].events, "complete")
                     /\ HasEvent(scan'[s].events, "complete")
                     /\ ~IsNone(modules_cache') /\ ~IsNone(modules_cache_timestamp')
                     /\ LET cache == Val(modules_cache')
                            names == ModuleEventNames(scan'[s].events)
                        IN  /\ Len(cache) = Len(names)
                            /\ {cache[i].name : i \in 1..Len(cache)} = SeqToSet(names)
                            /\ \A i, j \in 1..Len(cache) :
                                  i < j => LowerRank(cache[i].name) < LowerRank(cache[j].name)]_vars
    /\ [][\A s \in Streams :
            (scan[s].pc = "error_yield" /\ scan'[s].pc = "done")
               => /\ UNCHANGED <<modules_cache, modules_cache_timestamp>>
                  /\ ~streaming_in_progress']_vars

\* the preload had filled the cache, a refresh was started, its scan has ended
\* and the cache is empty with the flag released
C30_Witness ==
    /\ preload = "done"
    /\ resp.op = "refresh_start" /\ resp.code = 200
    /\ scan[1].pc = "done"
    /\ IsNone(modules_cache) /\ IsNone(modules_cache_timestamp)
    /\ ~streaming_in_progress

====
